---- MODULE Spec2Model ----
(***************************************************************************)
(* Model of the candidate-matching core of ai-resource-finder:             *)
(*   utils/skill_normalizer.py   SkillNormalizer                           *)
(*   services/gap_analyzer.py    GapAnalyzer                               *)
(*   services/matching_engine.py MatchingEngine (rule scoring, fusion)     *)
(*                                                                         *)
(* Python strings are modelled as sequences of one-character strings, so   *)
(* that lower-casing, stripping, separator replacement and the substring   *)
(* test `v in normalized` are computed character by character.  Python     *)
(* dicts are modelled as sequences of [k, v] records in insertion order    *)
(* with pairwise distinct keys.  Numbers that the code divides are exact   *)
(* rationals <<numerator, denominator>>.                                   *)
(***************************************************************************)
EXTENDS Integers, Sequences, FiniteSets, TLC

VARIABLES
  pc,              \* position of the scenario being executed
  skillA,          \* raw skill string handed to the normalizer (skill1)
  skillB,          \* second raw skill string (skill2)
  normA,           \* result of normalize_skill(skillA)
  normB,           \* result of normalize_skill(skillB)
  matchAB,         \* result of skills_match(skillA, skillB)
  cand,            \* the candidate dict being scored
  req,             \* parsed_requirement
  ruleResult,      \* rule_based_scoring: the scores list and the returned total
  gapList,         \* candidate["gaps"]
  domainGap,       \* result of analyze_domain_gap (<<>> is None)
  fusionIn,        \* config weights and the three scores handed to fusion
  finalScore,      \* candidate["final_score"]
  matchPercentage, \* candidate["match_percentage"]
  hasIn,           \* candidate_skills and required_skill handed to
                   \* has_skill_or_equivalent
  hasSkill,        \* its result
  courseIn,        \* gaps, candidate_profile and environment of one call of
                   \* recommend_courses
  courseOut,       \* what the call did: raised, or the recommendations and the
                   \* courses as sorted
  courseSteps,     \* the searches and the re-rank the call ran, in order
  pipeIn,          \* profile store, parsed requirement, top_n and environment
                   \* of one call of find_candidates
  pipeSearches,    \* thresholds of the similarity queries sent so far
  pipeRetrieved,   \* `candidates` as vector_search returned it
  pipeLlmCalls,    \* batch numbers of the calls of invoke_model_json so far
  pipeScored,      \* `candidates` after the loop of Step 3, before the sort
  pipeCands        \* `candidates` as the pipeline has it now

normVars   == <<skillA, skillB, normA, normB, matchAB>>
matchVars  == <<cand, req, ruleResult, gapList, domainGap>>
fusionVars == <<fusionIn, finalScore, matchPercentage>>
hasVars    == <<hasIn, hasSkill>>
courseVars == <<courseIn, courseOut, courseSteps>>
pipeVars   ==
  <<pipeIn, pipeSearches, pipeRetrieved, pipeLlmCalls, pipeScored, pipeCands>>
vars == <<pc, normVars, matchVars, fusionVars, hasVars, courseVars, pipeVars>>

(***************************************************************************)
(* Bounds                                                                  *)
(***************************************************************************)
\* longest exhaustively enumerated raw skill string
MaxLen == 3
\* most entries in a candidate's extracted_skills
MaxSkills == 2
\* most entries in required_skills
MaxRequired == 2
\* most gaps handed to recommend_courses
MaxGaps == 3
\* most courses in the catalog
MaxCourses == 3
\* largest number of profiles in the profile store
MaxCandidates == 6

(***************************************************************************)
(* Python str primitives                                                   *)
(***************************************************************************)
UpperChars == <<"A","B","C","D","E","F","G","H","I","J","K","L","M",
                "N","O","P","Q","R","S","T","U","V","W","X","Y","Z">>
LowerChars == <<"a","b","c","d","e","f","g","h","i","j","k","l","m",
                "n","o","p","q","r","s","t","u","v","w","x","y","z">>

\* one character of str.lower()
LowerChar(c) ==
  IF \E i \in 1..Len(UpperChars) : UpperChars[i] = c
  THEN LowerChars[CHOOSE i \in 1..Len(UpperChars) : UpperChars[i] = c]
  ELSE c

\* str.lower()
lower(s) == [i \in 1..Len(s) |-> LowerChar(s[i])]

\* the characters matched by \s and removed by str.strip()
IsWhitespace(c) == c \in {" ", "\t"}

RECURSIVE lstrip(_)
lstrip(s) ==
  IF s # <<>> /\ IsWhitespace(Head(s)) THEN lstrip(Tail(s)) ELSE s

RECURSIVE rstrip(_)
rstrip(s) ==
  IF s # <<>> /\ IsWhitespace(s[Len(s)])
  THEN rstrip(SubSeq(s, 1, Len(s) - 1)) ELSE s

\* str.strip()
strip(s) == rstrip(lstrip(s))

\* re.sub(r'\s+', ' ', s): every maximal run of whitespace becomes one space
RECURSIVE collapse_whitespace(_)
collapse_whitespace(s) ==
  IF s = <<>> THEN <<>>
  ELSE IF IsWhitespace(Head(s))
       THEN <<" ">> \o collapse_whitespace(lstrip(s))
       ELSE <<Head(s)>> \o collapse_whitespace(Tail(s))

\* s.replace(".", "").replace("-", " ").replace("_", " ")
RECURSIVE replace_separators(_)
replace_separators(s) ==
  IF s = <<>> THEN <<>>
  ELSE IF Head(s) = "." THEN replace_separators(Tail(s))
  ELSE IF Head(s) \in {"-", "_"} THEN <<" ">> \o replace_separators(Tail(s))
  ELSE <<Head(s)>> \o replace_separators(Tail(s))

\* Python `needle in hay` on strings
Contains(hay, needle) ==
  \E i \in 0..(Len(hay) - Len(needle)) :
     SubSeq(hay, i + 1, i + Len(needle)) = needle

\* Python `x in list`
InList(x, list) == \E i \in 1..Len(list) : list[i] = x

(***************************************************************************)
(* SkillNormalizer tables                                                  *)
(***************************************************************************)
SKILL_VARIATIONS ==
  <<
    [standard   |-> <<"r", "e", "s", "t", " ", "a", "p", "i">>,
     variations |-> << <<"r", "e", "s", "t", " ", "a", "p", "i">>,
                     <<"r", "e", "s", "t", " ", "a", "p", "i", "s">>,
                     <<"r", "e", "s", "t", "f", "u", "l", " ", "a", "p", "i">>,
                     <<"r", "e", "s", "t", "f", "u", "l", " ", "a", "p", "i", "s">>,
                     <<"r", "e", "s", "t">>,
                     <<"r", "e", "s", "t", "f", "u", "l">> >>],
    [standard   |-> <<"s", "p", "r", "i", "n", "g", " ", "b", "o", "o", "t">>,
     variations |-> << <<"s", "p", "r", "i", "n", "g", " ", "b", "o", "o", "t">>,
                     <<"s", "p", "r", "i", "n", "g", "b", "o", "o", "t">>,
                     <<"s", "p", "r", "i", "n", "g", "-", "b", "o", "o", "t">> >>],
    [standard   |-> <<"s", "p", "r", "i", "n", "g", " ", "f", "r", "a", "m", "e", "w", "o", "r", "k">>,
     variations |-> << <<"s", "p", "r", "i", "n", "g", " ", "f", "r", "a", "m", "e", "w", "o", "r", "k">>,
                     <<"s", "p", "r", "i", "n", "g">>,
                     <<"s", "p", "r", "i", "n", "g", " ", "c", "o", "r", "e">> >>],
    [standard   |-> <<"r", "e", "a", "c", "t", ".", "j", "s">>,
     variations |-> << <<"r", "e", "a", "c", "t", ".", "j", "s">>,
                     <<"r", "e", "a", "c", "t", "j", "s">>,
                     <<"r", "e", "a", "c", "t">>,
                     <<"r", "e", "a", "c", "t", " ", "j", "s">> >>],
    [standard   |-> <<"n", "o", "d", "e", ".", "j", "s">>,
     variations |-> << <<"n", "o", "d", "e", ".", "j", "s">>,
                     <<"n", "o", "d", "e", "j", "s">>,
                     <<"n", "o", "d", "e", " ", "j", "s">>,
                     <<"n", "o", "d", "e">> >>],
    [standard   |-> <<"m", "y", "s", "q", "l">>,
     variations |-> << <<"m", "y", "s", "q", "l">>,
                     <<"m", "y", " ", "s", "q", "l">> >>],
    [standard   |-> <<"j", "a", "v", "a", "s", "c", "r", "i", "p", "t">>,
     variations |-> << <<"j", "a", "v", "a", "s", "c", "r", "i", "p", "t">>,
                     <<"j", "s">>,
                     <<"e", "c", "m", "a", "s", "c", "r", "i", "p", "t">> >>],
    [standard   |-> <<"t", "y", "p", "e", "s", "c", "r", "i", "p", "t">>,
     variations |-> << <<"t", "y", "p", "e", "s", "c", "r", "i", "p", "t">>,
                     <<"t", "s">> >>],
    [standard   |-> <<"p", "y", "t", "h", "o", "n">>,
     variations |-> << <<"p", "y", "t", "h", "o", "n">>,
                     <<"p", "y">> >>],
    [standard   |-> <<"j", "a", "v", "a">>,
     variations |-> << <<"j", "a", "v", "a">>,
                     <<"j", "a", "v", "a", " ", "p", "r", "o", "g", "r", "a", "m", "m", "i", "n", "g">>,
                     <<"j", "a", "v", "a", " ", "d", "e", "v", "e", "l", "o", "p", "m", "e", "n", "t">> >>]
  >>

SKILL_DEPENDENCIES ==
  <<
    [skill   |-> <<"s", "p", "r", "i", "n", "g", " ", "b", "o", "o", "t">>,
     implied |-> << <<"j", "a", "v", "a">>,
                  <<"s", "p", "r", "i", "n", "g", " ", "f", "r", "a", "m", "e", "w", "o", "r", "k">> >>],
    [skill   |-> <<"s", "p", "r", "i", "n", "g", " ", "f", "r", "a", "m", "e", "w", "o", "r", "k">>,
     implied |-> << <<"j", "a", "v", "a">> >>],
    [skill   |-> <<"r", "e", "a", "c", "t", ".", "j", "s">>,
     implied |-> << <<"j", "a", "v", "a", "s", "c", "r", "i", "p", "t">> >>],
    [skill   |-> <<"n", "o", "d", "e", ".", "j", "s">>,
     implied |-> << <<"j", "a", "v", "a", "s", "c", "r", "i", "p", "t">> >>],
    [skill   |-> <<"t", "y", "p", "e", "s", "c", "r", "i", "p", "t">>,
     implied |-> << <<"j", "a", "v", "a", "s", "c", "r", "i", "p", "t">> >>],
    [skill   |-> <<"a", "n", "g", "u", "l", "a", "r">>,
     implied |-> << <<"t", "y", "p", "e", "s", "c", "r", "i", "p", "t">>,
                  <<"j", "a", "v", "a", "s", "c", "r", "i", "p", "t">> >>],
    [skill   |-> <<"v", "u", "e", ".", "j", "s">>,
     implied |-> << <<"j", "a", "v", "a", "s", "c", "r", "i", "p", "t">> >>]
  >>


\* skill names as they appear as keys of extracted_skills
CandidateSkillKeys == { <<"J", "a", "v", "a">>, <<"j", "a", "v", "a", " ", "d", "e", "v", "e", "l", "o", "p", "m", "e", "n", "t">>, <<"S", "p", "r", "i", "n", "g", " ", "B", "o", "o", "t">> }

\* skill names as a parsed requirement spells them
RequiredSkillNames == { <<"J", "a", "v", "a">>, <<"A", "W", "S">>, <<"S", "p", "r", "i", "n", "g">> }

\* smallest element of a non-empty set of integers
Min(S) == CHOOSE x \in S : \A y \in S : x <= y

(***************************************************************************)
(* SkillNormalizer                                                         *)
(***************************************************************************)
\* lower().strip(), whitespace collapse, then separator replacement
clean_skill(skill) ==
  replace_separators(collapse_whitespace(strip(lower(skill))))

\* `normalized in variations or any(v in normalized for v in variations)`
variation_hit(normalized, variations) ==
  \/ InList(normalized, variations)
  \/ \E i \in 1..Len(variations) : Contains(normalized, variations[i])

\* the groups of SKILL_VARIATIONS whose loop condition holds for normalized
matching_groups(normalized) ==
  {g \in 1..Len(SKILL_VARIATIONS) :
     variation_hit(normalized, SKILL_VARIATIONS[g].variations)}

\* variant of first_standard whose loop keeps the last matching group
last_standard(normalized, hits) ==
  IF hits # {}
  THEN SKILL_VARIATIONS[CHOOSE g \in hits : \A h \in hits : h <= g].standard
  ELSE normalized

\* the loop over SKILL_VARIATIONS.items(): the standard name of the first
\* matching group in table order, else the cleaned name itself
first_standard(normalized, hits) ==
  IF hits # {} THEN SKILL_VARIATIONS[Min(hits)].standard ELSE normalized

\* the cleaned name looked up in SKILL_VARIATIONS
lookup_variation(normalized) ==
  first_standard(normalized, matching_groups(normalized))

\* SkillNormalizer.normalize_skill
normalize_skill(skill) ==
  IF skill = <<>> THEN <<>> ELSE lookup_variation(clean_skill(skill))

\* the raw names of the matching scenarios and the names of the two tables
KnownRawNames ==
  CandidateSkillKeys \cup RequiredSkillNames
  \cup {SKILL_VARIATIONS[g].standard : g \in 1..Len(SKILL_VARIATIONS)}
  \cup UNION { {SKILL_DEPENDENCIES[d].implied[i] :
                  i \in 1..Len(SKILL_DEPENDENCIES[d].implied)} :
               d \in 1..Len(SKILL_DEPENDENCIES) }

\* the strings normalize_skill is applied to in the matching scenarios:
\* the known raw names and their normal forms
with_normal_forms(raw) == raw \cup {normalize_skill(s) : s \in raw}

KnownSkillNames == with_normal_forms(KnownRawNames)

\* normalize_skill tabulated once over KnownSkillNames
NormalizedName == [s \in KnownSkillNames |-> normalize_skill(s)]

\* normalize_skill as its callers reach it: the tabulated value where there
\* is one, the computation otherwise
normalize(skill) ==
  IF skill \in DOMAIN NormalizedName THEN NormalizedName[skill]
  ELSE normalize_skill(skill)

\* skills_match on the two normalized names norm1 and norm2
names_match(norm1, norm2) ==
  \/ norm1 = norm2
  \/ \E g \in 1..Len(SKILL_VARIATIONS) :
       \/ /\ InList(norm1, SKILL_VARIATIONS[g].variations)
          /\ InList(norm2, SKILL_VARIATIONS[g].variations)
       \/ /\ norm1 = SKILL_VARIATIONS[g].standard
          /\ InList(norm2, SKILL_VARIATIONS[g].variations)
       \/ /\ norm2 = SKILL_VARIATIONS[g].standard
          /\ InList(norm1, SKILL_VARIATIONS[g].variations)

\* SkillNormalizer.skills_match
skills_match(s1, s2) == names_match(normalize(s1), normalize(s2))

\* SKILL_DEPENDENCIES.get(normalized, [])
dependencies_of(normalized) ==
  IF \E i \in 1..Len(SKILL_DEPENDENCIES) : SKILL_DEPENDENCIES[i].skill = normalized
  THEN SKILL_DEPENDENCIES[CHOOSE i \in 1..Len(SKILL_DEPENDENCIES) :
                            SKILL_DEPENDENCIES[i].skill = normalized].implied
  ELSE <<>>

\* SkillNormalizer.get_implied_skills
get_implied_skills(skill) == dependencies_of(normalize(skill))

\* variant of has_normalized without the implied-skill test
has_normalized_no_implied(candidate_skills, normalized_required) ==
  \/ normalized_required \in candidate_skills
  \/ \E candidate_skill \in candidate_skills :
       skills_match(candidate_skill, normalized_required)

\* the three tests of has_skill_or_equivalent on the normalized requirement
has_normalized(candidate_skills, normalized_required) ==
  \/ normalized_required \in candidate_skills
  \/ \E candidate_skill \in candidate_skills :
       skills_match(candidate_skill, normalized_required)
  \/ \E candidate_skill \in candidate_skills :
       InList(normalized_required, get_implied_skills(candidate_skill))

\* SkillNormalizer.has_skill_or_equivalent (candidate_skills is a set)
has_skill_or_equivalent(candidate_skills, required_skill) ==
  has_normalized(candidate_skills, normalize(required_skill))

(***************************************************************************)
(* Python dict primitives (a dict is a sequence of [k, v] in insertion     *)
(* order, keys pairwise distinct)                                          *)
(***************************************************************************)
\* `key in d`
DictHas(d, key) == \E i \in 1..Len(d) : d[i].k = key

\* d.get(key, default)
DictGet(d, key, default) ==
  IF DictHas(d, key)
  THEN d[CHOOSE i \in 1..Len(d) : d[i].k = key].v
  ELSE default

\* d[key] = value: an existing key keeps its position, a new key is appended
DictSet(d, key, value) ==
  IF DictHas(d, key)
  THEN [i \in 1..Len(d) |-> IF d[i].k = key THEN [k |-> key, v |-> value]
                                             ELSE d[i]]
  ELSE Append(d, [k |-> key, v |-> value])

\* list(d.keys())
DictKeys(d) == [i \in 1..Len(d) |-> d[i].k]

\* set(list)
ToSet(list) == {list[i] : i \in 1..Len(list)}

(***************************************************************************)
(* Exact arithmetic on the scores: a number is <<numerator, denominator>>  *)
(* with a positive denominator, kept in lowest terms                       *)
(***************************************************************************)
RECURSIVE GCD(_, _)
GCD(a, b) == IF b = 0 THEN a ELSE GCD(b, a % b)

Abs(x) == IF x < 0 THEN -x ELSE x

Rat(n, d) ==
  LET g == GCD(Abs(n), d) IN IF n = 0 THEN <<0, 1>> ELSE <<n \div g, d \div g>>

Zero == <<0, 1>>
One  == <<1, 1>>

RAdd(x, y) == Rat(x[1] * y[2] + y[1] * x[2], x[2] * y[2])
RMul(x, y) == Rat(x[1] * y[1], x[2] * y[2])
RLess(x, y) == x[1] * y[2] < y[1] * x[2]
RLeq(x, y) == x[1] * y[2] <= y[1] * x[2]

\* min(max(x, 0.0), 1.0)
Clamp01(x) ==
  LET lo == IF RLess(x, Zero) THEN Zero ELSE x
  IN IF RLess(One, lo) THEN One ELSE lo

RECURSIVE RSum(_)
RSum(xs) == IF xs = <<>> THEN Zero ELSE RAdd(Head(xs), RSum(Tail(xs)))

\* Python round() of a non-negative number: nearest integer, ties to even
RoundHalfEven(x) ==
  LET q == x[1] \div x[2]
      r == x[1] % x[2]
  IN IF 2 * r < x[2] THEN q
     ELSE IF 2 * r > x[2] THEN q + 1
     ELSE IF q % 2 = 0 THEN q ELSE q + 1

(***************************************************************************)
(* GapAnalyzer                                                             *)
(***************************************************************************)
\* proficiency_scores, in hundredths
proficiency_scores ==
  << [k |-> <<"e", "x", "p", "e", "r", "t">>,       v |-> 100],
     [k |-> <<"a", "d", "v", "a", "n", "c", "e", "d">>,     v |-> 75],
     [k |-> <<"i", "n", "t", "e", "r", "m", "e", "d", "i", "a", "t", "e">>, v |-> 50],
     [k |-> <<"b", "e", "g", "i", "n", "n", "e", "r">>,     v |-> 25] >>

\* variant of proficiency_score that looks the level up as written
proficiency_score_as_written(skill_data) ==
  DictGet(proficiency_scores, DictGet(skill_data, "proficiency", <<>>), 0)

\* skill_data.get("proficiency", "").lower() looked up in proficiency_scores,
\* 0.0 when the level is not in the table
proficiency_score(skill_data) ==
  LET proficiency == lower(DictGet(skill_data, "proficiency", <<>>))
  IN DictGet(proficiency_scores, proficiency, 0)

\* {normalize_skill(skill): skill for skill in extracted_skills.keys()}:
\* a later key with the same normalized name replaces the earlier value
RECURSIVE normalized_key_map(_, _)
normalized_key_map(keys, acc) ==
  IF keys = <<>> THEN acc
  ELSE normalized_key_map(Tail(keys),
                          DictSet(acc, normalize(Head(keys)), Head(keys)))

candidate_skills_normalized(candidate) ==
  normalized_key_map(DictKeys(candidate.extracted_skills), <<>>)

\* a set of normalized names plus the skills each of them implies
with_implied_skills(direct) ==
  direct \cup UNION { ToSet(get_implied_skills(skill)) : skill \in direct }

\* candidate_skills_set: the normalized names and what they imply
candidate_skills_set(candidate) ==
  with_implied_skills(ToSet(DictKeys(candidate_skills_normalized(candidate))))

NoKey == <<>>

\* the loop over candidate_skills_normalized.items(): the original key of the
\* first item whose normalized name matches; NoKey (None) when there is none
first_matching_key(items, normalized_required) ==
  IF \E i \in 1..Len(items) : skills_match(items[i].k, normalized_required)
  THEN items[Min({i \in 1..Len(items) :
                    skills_match(items[i].k, normalized_required)})].v
  ELSE NoKey

\* actual_skill_key for one required skill
actual_skill_key(candidate, required_skill) ==
  first_matching_key(candidate_skills_normalized(candidate),
                     normalize(required_skill))

\* the insufficient-proficiency gap
insufficient_gap(gap_info, score) ==
  gap_info @@ [gap_type |-> "insufficient",
               severity |-> IF score < 25 THEN "high" ELSE "medium"]

\* the insufficient-experience gap
experience_gap(gap_info, required_years, candidate_years_for_skill) ==
  gap_info @@ [gap_type |-> "insufficient_experience",
               severity |-> IF required_years - candidate_years_for_skill > 2
                            THEN "high" ELSE "medium",
               required_years  |-> required_years,
               candidate_years |-> candidate_years_for_skill]

\* variant of check_entry that falls through to the years check after an
\* insufficient-proficiency gap
check_entry_fall_through(gap_info, score, has_minimum, required_years, candidate_years) ==
  (IF score < 50 THEN << insufficient_gap(gap_info, score) >> ELSE <<>>)
  \o
  (IF has_minimum /\ candidate_years < required_years
   THEN << experience_gap(gap_info, required_years,
                          candidate_years) >>
   ELSE <<>>)

\* the proficiency check and then the years check on the entry found:
\* score is the proficiency score, has_minimum is
\* `actual_skill_key in min_years_per_skill`
check_entry(gap_info, score, has_minimum, required_years, candidate_years) ==
  IF score < 50 THEN << insufficient_gap(gap_info, score) >>
  ELSE IF has_minimum /\ candidate_years < required_years
  THEN << experience_gap(gap_info, required_years,
                         candidate_years) >>
  ELSE <<>>

\* variant of check_skill that applies the years check, keyed by the required
\* skill, to a skill held without an entry of its own
check_skill_years_for_implied(candidate, gap_info, key, min_years_per_skill) ==
  IF key # NoKey /\ DictHas(candidate.extracted_skills, key)
  THEN check_entry(gap_info,
                   proficiency_score(
                     DictGet(candidate.extracted_skills, key, <<>>)),
                   DictHas(min_years_per_skill, key),
                   DictGet(min_years_per_skill, key, 0),
                   DictGet(candidate.years_of_experience, key, 0))
  ELSE check_entry(gap_info, 100,
                   DictHas(min_years_per_skill, gap_info.skill),
                   DictGet(min_years_per_skill, gap_info.skill, 0),
                   DictGet(candidate.years_of_experience, gap_info.skill, 0))

\* the part of the loop body after the missing check, for the key found.
\* The inner loop over implied skills only `continue`s itself and changes
\* nothing, so a skill without an entry of its own gets no gap.
check_skill(candidate, gap_info, key, min_years_per_skill) ==
  IF key # NoKey /\ DictHas(candidate.extracted_skills, key)
  THEN check_entry(gap_info,
                   proficiency_score(
                     DictGet(candidate.extracted_skills, key, <<>>)),
                   DictHas(min_years_per_skill, key),
                   DictGet(min_years_per_skill, key, 0),
                   DictGet(candidate.years_of_experience, key, 0))
  ELSE <<>>

\* the missing gap
missing_gap(gap_info) ==
  gap_info @@ [gap_type |-> "missing", severity |-> "high"]

\* variant of gap_for_skill that reports every skill without an entry of its
\* own as missing, implied or not
gap_for_skill_direct_only(candidate, required_skill, min_years_per_skill) ==
  IF actual_skill_key(candidate, required_skill) = NoKey
  THEN << missing_gap([skill |-> required_skill]) >>
  ELSE check_skill(candidate, [skill |-> required_skill],
                   actual_skill_key(candidate, required_skill),
                   min_years_per_skill)

\* one iteration of the loop of GapAnalyzer.analyze_gaps: the gaps (none or
\* one) appended for required_skill
gap_for_skill(candidate, required_skill, min_years_per_skill) ==
  IF ~has_skill_or_equivalent(candidate_skills_set(candidate), required_skill)
  THEN << missing_gap([skill |-> required_skill]) >>
  ELSE check_skill(candidate, [skill |-> required_skill],
                   actual_skill_key(candidate, required_skill),
                   min_years_per_skill)

\* GapAnalyzer.analyze_gaps: the loop over required_skills, in order
RECURSIVE analyze_gaps(_, _, _)
analyze_gaps(candidate, required_skills, min_years_per_skill) ==
  IF required_skills = <<>> THEN <<>>
  ELSE gap_for_skill(candidate, Head(required_skills), min_years_per_skill)
       \o analyze_gaps(candidate, Tail(required_skills), min_years_per_skill)

\* variant of analyze_domain_gap that only looks for the requirement inside
\* a tag
analyze_domain_gap_one_way(candidate, required_domain) ==
  IF required_domain = <<>> THEN <<>>
  ELSE LET candidate_domains ==
             [i \in 1..Len(candidate.domain_tags) |->
                lower(candidate.domain_tags[i])]
           required_domain_lower == lower(required_domain)
       IN IF ~ \E i \in 1..Len(candidate_domains) :
                 Contains(candidate_domains[i], required_domain_lower)
          THEN << [skill |-> required_domain, gap_type |-> "domain",
                   severity |-> "medium"] >>
          ELSE <<>>

\* GapAnalyzer.analyze_domain_gap; the result is <<>> for None and <<gap>>
\* for a gap
analyze_domain_gap(candidate, required_domain) ==
  IF required_domain = <<>> THEN <<>>
  ELSE LET candidate_domains ==
             [i \in 1..Len(candidate.domain_tags) |->
                lower(candidate.domain_tags[i])]
           required_domain_lower == lower(required_domain)
       IN IF ~ \E i \in 1..Len(candidate_domains) :
                 \/ Contains(candidate_domains[i], required_domain_lower)
                 \/ Contains(required_domain_lower, candidate_domains[i])
          THEN << [skill |-> required_domain, gap_type |-> "domain",
                   severity |-> "medium"] >>
          ELSE <<>>

(***************************************************************************)
(* MatchingEngine: rule-based scoring and score fusion                     *)
(***************************************************************************)
\* base weights of rule_based_scoring, in hundredths
BASE_REQUIRED_WEIGHT == 40
BASE_PREFERRED_WEIGHT == 20
BASE_DOMAIN_WEIGHT == 15
BASE_YEARS_WEIGHT == 15
PROFICIENCY_WEIGHT == 10

\* sum(1 for skill in skills if skill in candidate_skills) / len(skills)
coverage(skills, candidate_skills) ==
  Rat(Cardinality({i \in 1..Len(skills) : skills[i] \in candidate_skills}),
      Len(skills))

\* Rule 3: 1.0 when some tag contains the domain or is contained in it
domain_match(candidate, required_domain) ==
  LET required_domain_lower == lower(required_domain)
      candidate_domains == [i \in 1..Len(candidate.domain_tags) |->
                              lower(candidate.domain_tags[i])]
  IN IF \E i \in 1..Len(candidate_domains) :
          \/ Contains(candidate_domains[i], required_domain_lower)
          \/ Contains(required_domain_lower, candidate_domains[i])
     THEN One ELSE Zero

\* Rule 4: the per-skill credit for one (skill, min_yrs) item of min_years
years_credit(candidate, skill, min_yrs) ==
  LET candidate_yrs == DictGet(candidate.years_of_experience, skill, 0)
  IN IF candidate_yrs >= min_yrs THEN One
     ELSE IF candidate_yrs > 0 THEN Rat(candidate_yrs, min_yrs)
     ELSE Zero

\* Rule 4: sum(years_scores) / len(years_scores)
years_match(candidate, min_years) ==
  RMul(RSum([i \in 1..Len(min_years) |->
               years_credit(candidate, min_years[i].k, min_years[i].v)]),
       Rat(1, Len(min_years)))

\* sum(score * weight for _, score, weight in scores)
weighted_sum(scores) ==
  RSum([i \in 1..Len(scores) |->
          RMul(scores[i].score, Rat(scores[i].weight, 100))])

\* variant of rule_based_scoring that drops an unspecified axis without
\* moving its weight to the required-skills axis
rule_based_scoring_no_redistribution(candidate, parsed_requirement) ==
  LET required_skills  == parsed_requirement.required_skills
      candidate_skills == ToSet(DictKeys(candidate.extracted_skills))
      required_score   == IF required_skills # <<>>
                          THEN coverage(required_skills, candidate_skills)
                          ELSE One
      preferred_skills == parsed_requirement.preferred_skills
      required_domain  == strip(parsed_requirement.domain)
      min_years        == parsed_requirement.min_years_per_skill
      preferred_part ==
        IF preferred_skills # <<>>
        THEN << [name |-> "preferred_skills",
                 score |-> coverage(preferred_skills, candidate_skills),
                 weight |-> BASE_PREFERRED_WEIGHT] >>
        ELSE <<>>
      domain_part ==
        IF required_domain # <<>>
        THEN << [name |-> "domain",
                 score |-> domain_match(candidate, required_domain),
                 weight |-> BASE_DOMAIN_WEIGHT] >>
        ELSE <<>>
      years_part ==
        IF min_years # <<>>
        THEN << [name |-> "years",
                 score |-> years_match(candidate, min_years),
                 weight |-> BASE_YEARS_WEIGHT] >>
        ELSE <<>>
      scores == preferred_part \o domain_part \o years_part \o
                << [name |-> "required_skills", score |-> required_score,
                    weight |-> BASE_REQUIRED_WEIGHT + PROFICIENCY_WEIGHT] >>
  IN [scores |-> scores, total |-> Clamp01(weighted_sum(scores))]

\* MatchingEngine.rule_based_scoring: the list `scores` of (name, score,
\* weight) as the code builds it, and the clamped weighted sum it returns
rule_based_scoring(candidate, parsed_requirement) ==
  LET required_skills  == parsed_requirement.required_skills
      candidate_skills == ToSet(DictKeys(candidate.extracted_skills))
      required_score   == IF required_skills # <<>>
                          THEN coverage(required_skills, candidate_skills)
                          ELSE One
      preferred_skills == parsed_requirement.preferred_skills
      required_domain  == strip(parsed_requirement.domain)
      min_years        == parsed_requirement.min_years_per_skill
      preferred_part ==
        IF preferred_skills # <<>>
        THEN << [name |-> "preferred_skills",
                 score |-> coverage(preferred_skills, candidate_skills),
                 weight |-> BASE_PREFERRED_WEIGHT] >>
        ELSE <<>>
      domain_part ==
        IF required_domain # <<>>
        THEN << [name |-> "domain",
                 score |-> domain_match(candidate, required_domain),
                 weight |-> BASE_DOMAIN_WEIGHT] >>
        ELSE <<>>
      years_part ==
        IF min_years # <<>>
        THEN << [name |-> "years",
                 score |-> years_match(candidate, min_years),
                 weight |-> BASE_YEARS_WEIGHT] >>
        ELSE <<>>
      required_skills_weight ==
        BASE_REQUIRED_WEIGHT + PROFICIENCY_WEIGHT
        + (IF preferred_skills # <<>> THEN 0 ELSE BASE_PREFERRED_WEIGHT)
        + (IF required_domain # <<>> THEN 0 ELSE BASE_DOMAIN_WEIGHT)
        + (IF min_years # <<>> THEN 0 ELSE BASE_YEARS_WEIGHT)
      scores == preferred_part \o domain_part \o years_part \o
                << [name |-> "required_skills", score |-> required_score,
                    weight |-> required_skills_weight] >>
  IN [scores |-> scores, total |-> Clamp01(weighted_sum(scores))]

\* variant of calculate_final_score that returns the weighted sum unclamped
calculate_final_score_unclamped(config, vector_score, llm_score, rule_score) ==
  RAdd(RAdd(RMul(config.vector_search_weight, vector_score),
            RMul(config.llm_score_weight, llm_score)),
       RMul(config.rule_score_weight, rule_score))

\* MatchingEngine.calculate_final_score
calculate_final_score(config, vector_score, llm_score, rule_score) ==
  Clamp01(RAdd(RAdd(RMul(config.vector_search_weight, vector_score),
                    RMul(config.llm_score_weight, llm_score)),
               RMul(config.rule_score_weight, rule_score)))

(***************************************************************************)
(* CourseAgent: course recommendation for a list of gaps                   *)
(***************************************************************************)
\* SQL NULL / Python None in a text column
NULL == << "NULL" >>

\* Config: course weights and the number of courses a search may return
course_vector_weight == Rat(30, 100)
course_llm_weight == Rat(50, 100)
course_rule_weight == Rat(20, 100)
top_n_courses == 10

\* list[:n]
Take(list, n) == SubSeq(list, 1, IF n < Len(list) THEN n ELSE Len(list))

\* d.get(key, default) on a JSON object or row held as a record
GetOr(d, key, default) == IF key \in DOMAIN d THEN d[key] ELSE default

\* d[key] = value on a row held as a record
SetField(d, key, value) ==
  [k \in DOMAIN d \cup {key} |-> IF k = key THEN value ELSE d[k]]

\* rows in descending order of their similarity, ties in catalog order
RECURSIVE by_similarity(_)
by_similarity(rows) ==
  IF rows = <<>> THEN <<>>
  ELSE LET best == CHOOSE i \in 1..Len(rows) :
                     /\ \A j \in 1..Len(rows) :
                          RLeq(rows[j].similarity, rows[i].similarity)
                     /\ \A j \in 1..(i - 1) :
                          RLess(rows[j].similarity, rows[i].similarity)
       IN << rows[best] >>
          \o by_similarity(SubSeq(rows, 1, best - 1)
                           \o SubSeq(rows, best + 1, Len(rows)))

\* the row a search returns for a catalog course: its columns and the
\* similarity of the course to the query
course_row(course, query) ==
  [id |-> course.id, title |-> course.title,
   description |-> course.description, level |-> course.level,
   prerequisites |-> course.prerequisites,
   similarity |-> course.similarity[query]]

\* the rows whose similarity to the query reaches the threshold
rows_above(catalog, query, threshold) ==
  SelectSeq([i \in 1..Len(catalog) |-> course_row(catalog[i], query)],
            LAMBDA row : RLeq(threshold, row.similarity))

\* cosine_similarity_search_courses(embedding, threshold, limit)
cosine_similarity_search_courses(catalog, query, threshold, limit) ==
  Take(by_similarity(rows_above(catalog, query, threshold)), limit)

\* CourseAgent._vector_search_courses: threshold 0.3
vector_search_courses(catalog, query, top_n) ==
  cosine_similarity_search_courses(catalog, query, Rat(3, 10), top_n)

\* CourseAgent._vector_search_courses_lower_threshold: threshold 0.1
vector_search_courses_lower_threshold(catalog, query, top_n) ==
  cosine_similarity_search_courses(catalog, query, Rat(1, 10), top_n)

\* the catalog as a list of rows with similarity 0.5, newest first
newest_first(catalog) ==
  [i \in 1..Len(catalog) |->
     [id |-> catalog[Len(catalog) + 1 - i].id,
      title |-> catalog[Len(catalog) + 1 - i].title,
      description |-> catalog[Len(catalog) + 1 - i].description,
      level |-> catalog[Len(catalog) + 1 - i].level,
      prerequisites |-> catalog[Len(catalog) + 1 - i].prerequisites,
      similarity |-> Rat(1, 2)]]

\* CourseAgent._get_any_courses_from_db: a failing query gives []
get_any_courses_from_db(catalog, query_fails, top_n) ==
  IF query_fails THEN <<>> ELSE Take(newest_first(catalog), top_n)

\* variant of fallback_step that runs the step whatever the earlier steps
\* found and keeps its courses when it found some
fallback_step_always(sofar, step, found) ==
  [courses |-> IF found # <<>> THEN found ELSE sofar.courses,
   steps |-> Append(sofar.steps, step)]

\* `if not courses: courses = ...`: a fallback is run, and its result taken,
\* only when the steps so far left no course
fallback_step(sofar, step, found) ==
  IF sofar.courses # <<>> THEN sofar
  ELSE [courses |-> found, steps |-> Append(sofar.steps, step)]

\* Step 1 of recommend_courses: the search and its three fallbacks, with the
\* steps that were run
search_chain(catalog, any_query_fails, top_n) ==
  fallback_step(
    fallback_step(
      fallback_step(
        [courses |-> vector_search_courses(catalog, "gap_query", top_n),
         steps |-> << "primary" >>],
        "lower",
        vector_search_courses_lower_threshold(catalog, "gap_query", top_n)),
      "broader",
      vector_search_courses_lower_threshold(catalog, "broader_query", top_n)),
    "any",
    get_any_courses_from_db(catalog, any_query_fails, top_n))

\* the courses Step 1 of recommend_courses ends with
search_courses(catalog, any_query_fails, top_n) ==
  search_chain(catalog, any_query_fails, top_n).courses

\* the searches of one call of recommend_courses, then the LLM re-rank when
\* they left courses; a search that raises ends the call
course_steps(gaps, env) ==
  IF gaps = <<>> THEN <<>>
  ELSE IF env.search_fails THEN << "primary" >>
  ELSE IF search_courses(env.catalog, env.any_query_fails,
                         top_n_courses) = <<>>
  THEN search_chain(env.catalog, env.any_query_fails, top_n_courses).steps
  ELSE Append(search_chain(env.catalog, env.any_query_fails,
                           top_n_courses).steps, "rerank")

\* the except branch of _llm_rerank_courses on one course
course_llm_default(course) ==
  SetField(SetField(SetField(course, "llm_score", Zero),
                    "rationale", ""), "gaps_addressed", <<>>)

\* the body of `if 0 <= idx < len(courses)` for one result
course_with_result(course, result) ==
  SetField(SetField(SetField(course, "llm_score",
                             Rat(GetOr(result, "relevance_score",
                                       [type |-> "number", value |-> 0]).value,
                                 100)),
                    "rationale", GetOr(result, "rationale", "")),
           "gaps_addressed", GetOr(result, "gaps_addressed", <<>>))

\* `result.get("relevance_score", 0) / 100.0` raises for a JSON string
score_raises(result) ==
  GetOr(result, "relevance_score",
        [type |-> "number", value |-> 0]).type # "number"

\* one iteration of the loop over results at index idx of the result
map_course_result(courses, result, idx) ==
  IF 0 <= idx /\ idx < Len(courses)
  THEN [courses EXCEPT ![idx + 1] = course_with_result(courses[idx + 1], result)]
  ELSE courses

\* the loop over results: the courses after it, or "raised" when an
\* iteration raises
RECURSIVE map_course_results(_, _)
map_course_results(courses, results) ==
  IF results = <<>> THEN [raised |-> FALSE, courses |-> courses]
  ELSE IF /\ 0 <= GetOr(Head(results), "course_index", 0)
          /\ GetOr(Head(results), "course_index", 0) < Len(courses)
          /\ score_raises(Head(results))
  THEN [raised |-> TRUE, courses |-> courses]
  ELSE map_course_results(
         map_course_result(courses, Head(results),
                           GetOr(Head(results), "course_index", 0)),
         Tail(results))

\* the try block's outcome turned into the courses returned
after_course_results(courses, outcome) ==
  IF outcome.raised
  THEN [i \in 1..Len(courses) |-> course_llm_default(outcome.courses[i])]
  ELSE outcome.courses

\* `if not isinstance(results, list): results = [results]`
as_list(response) ==
  IF response.is_list THEN response.array ELSE << response.object >>

\* CourseAgent._llm_rerank_courses; response is what invoke_model_json does:
\* it raises, or returns a JSON array or a JSON object
llm_rerank_courses(courses, response) ==
  IF response.raises
  THEN [i \in 1..Len(courses) |-> course_llm_default(courses[i])]
  ELSE after_course_results(courses,
                            map_course_results(courses, as_list(response)))

\* Rule 1 of _rule_based_course_score on the lower-cased level
difficulty_score(has_high_severity, course_level) ==
  IF has_high_severity
     /\ course_level \in {<<"a", "d", "v", "a", "n", "c", "e", "d">>, <<"e", "x", "p", "e", "r", "t">>}
  THEN One
  ELSE IF ~has_high_severity
          /\ course_level \in {<<"b", "e", "g", "i", "n", "n", "e", "r">>, <<"i", "n", "t", "e", "r", "m", "e", "d", "i", "a", "t", "e">>}
  THEN One
  ELSE Rat(1, 2)

\* Rule 2: the share of prerequisites among the candidate's skills, compared
\* in lower case
prereq_score(prerequisites, candidate_skills) ==
  IF prerequisites = <<>> THEN One
  ELSE Rat(Cardinality({i \in 1..Len(prerequisites) :
                          \E skill \in candidate_skills :
                            lower(prerequisites[i]) = lower(skill)}),
           Len(prerequisites))

practicality_keywords ==
  << <<"h", "a", "n", "d", "s", "-", "o", "n">>,
     <<"p", "r", "a", "c", "t", "i", "c", "a", "l">>,
     <<"p", "r", "o", "j", "e", "c", "t">>,
     <<"r", "e", "a", "l", "-", "w", "o", "r", "l", "d">>,
     <<"w", "o", "r", "k", "s", "h", "o", "p">>,
     <<"l", "a", "b">> >>

\* Rule 3: 1.0 when the description mentions a practicality keyword, else 0.7
practicality_score(description) ==
  IF \E i \in 1..Len(practicality_keywords) :
       Contains(description, practicality_keywords[i])
  THEN One ELSE Rat(7, 10)

\* CourseAgent._rule_based_course_score (course.level is not None)
rule_based_course_score(course, gaps, candidate_profile) ==
  RAdd(RAdd(RMul(difficulty_score(
                   \E i \in 1..Len(gaps) : gaps[i].severity = "high",
                   lower(course.level)),
                 Rat(4, 10)),
            RMul(prereq_score(course.prerequisites,
                              ToSet(DictKeys(candidate_profile.extracted_skills))),
                 Rat(3, 10))),
       RMul(practicality_score(lower(course.description)), Rat(3, 10)))

\* the final score of a course from its three scores
course_final_score(vector_score, llm_score, rule_score) ==
  RAdd(RAdd(RMul(course_vector_weight, vector_score),
            RMul(course_llm_weight, llm_score)),
       RMul(course_rule_weight, rule_score))

\* Step 3 on one course: rule_score and final_score are stored on it
score_course(course, rule_score) ==
  SetField(SetField(course, "rule_score", rule_score),
           "final_score",
           course_final_score(GetOr(course, "similarity", Zero),
                              GetOr(course, "llm_score", Zero),
                              rule_score))

\* variant of insert_by_final_score that puts x in front of the rows with an
\* equal final_score
insert_by_final_score_before_ties(sorted, x, below) ==
  IF {i \in 1..Len(sorted) : RLeq(sorted[i].final_score, x.final_score)} = {}
  THEN Append(sorted, x)
  ELSE SubSeq(sorted, 1,
              Min({i \in 1..Len(sorted) :
                     RLeq(sorted[i].final_score, x.final_score)}) - 1)
       \o << x >>
       \o SubSeq(sorted,
                 Min({i \in 1..Len(sorted) :
                        RLeq(sorted[i].final_score, x.final_score)}),
                 Len(sorted))

\* one step of the stable sort: x goes after every row that is not below it
insert_by_final_score(sorted, x, below) ==
  IF below = {} THEN Append(sorted, x)
  ELSE SubSeq(sorted, 1, Min(below) - 1) \o << x >>
       \o SubSeq(sorted, Min(below), Len(sorted))

\* courses.sort(key=final_score, reverse=True)
RECURSIVE sort_by_final_score(_, _)
sort_by_final_score(rows, sorted) ==
  IF rows = <<>> THEN sorted
  ELSE sort_by_final_score(
         Tail(rows),
         insert_by_final_score(
           sorted, Head(rows),
           {i \in 1..Len(sorted) :
              RLess(sorted[i].final_score, Head(rows).final_score)}))

\* num_courses: 1, or 2 when there are several gaps, the top course does not
\* address them all and there is a second course
num_courses(gaps, courses) ==
  IF /\ Len(gaps) > 1
     /\ Len(GetOr(courses[1], "gaps_addressed", <<>>)) < Len(gaps)
     /\ Len(courses) > 1
  THEN 2 ELSE 1

\* variant of top_courses that keeps every scored course
top_courses_uncapped(courses, wanted) == courses

\* courses[:min(num_courses, 2)]
top_courses(courses, wanted) == Take(courses, IF wanted < 2 THEN wanted ELSE 2)

\* the skills of the top two gaps
top_gap_skills(gaps) == [i \in 1..Len(Take(gaps, 2)) |-> gaps[i].skill]

\* gaps_addressed of a recommendation: the course's, or the top gaps
gaps_addressed_or_top(gaps_addressed, gaps) ==
  IF gaps_addressed # <<>> THEN gaps_addressed ELSE top_gap_skills(gaps)

\* CourseRecommendation(course=TrainingCourse(...), score, rationale,
\* gaps_addressed) for one of the top courses
recommendation_for(course, gaps) ==
  [course |-> [id |-> course.id, title |-> course.title,
               description |-> course.description, level |-> course.level,
               prerequisites |-> course.prerequisites],
   score |-> GetOr(course, "final_score", Zero),
   rationale |-> GetOr(course, "rationale", ""),
   gaps_addressed |->
     gaps_addressed_or_top(GetOr(course, "gaps_addressed", <<>>), gaps)]

\* the fallback recommendation built from the top course
fallback_recommendation(top_course, gaps) ==
  [course |-> [id |-> top_course.id, title |-> top_course.title,
               description |-> top_course.description,
               level |-> top_course.level,
               prerequisites |-> top_course.prerequisites],
   score |-> GetOr(top_course, "final_score", Zero),
   rationale |-> "Recommended to address gaps",
   gaps_addressed |-> top_gap_skills(gaps)]

\* `if not recommendations and courses`
ensure_one(recommendations, courses, gaps) ==
  IF recommendations = <<>> /\ courses # <<>>
  THEN << fallback_recommendation(courses[1], gaps) >>
  ELSE recommendations

\* the selection and conversion of the sorted courses
select_courses(courses, gaps) ==
  ensure_one([i \in 1..Len(top_courses(courses, num_courses(gaps, courses)))
                |-> recommendation_for(courses[i], gaps)],
             courses, gaps)

\* what recommend_courses returns for the courses as sorted, with that list
selection_of(ranked, gaps) ==
  [raised |-> FALSE, recommendations |-> select_courses(ranked, gaps),
   ranked |-> ranked]

\* Steps 2 and 3 and the selection, for the courses found: `.lower()` of a
\* NULL level raises
recommend_from(courses, reranked, gaps, candidate_profile) ==
  IF \E i \in 1..Len(courses) : courses[i].level = NULL
  THEN [raised |-> TRUE, recommendations |-> <<>>, ranked |-> <<>>]
  ELSE selection_of(
         sort_by_final_score(
           [i \in 1..Len(reranked) |->
              score_course(reranked[i],
                           rule_based_course_score(reranked[i], gaps,
                                                   candidate_profile))],
           <<>>),
         gaps)

\* recommend_courses once the searches returned courses: [] when none
recommend_found(courses, response, gaps, candidate_profile) ==
  IF courses = <<>>
  THEN [raised |-> FALSE, recommendations |-> <<>>, ranked |-> <<>>]
  ELSE recommend_from(courses, llm_rerank_courses(courses, response), gaps,
                      candidate_profile)

\* CourseAgent.recommend_courses; env holds what the catalog, the embedding
\* function and the LLM do during the call
recommend_courses(gaps, candidate_profile, env) ==
  IF gaps = <<>>
  THEN [raised |-> FALSE, recommendations |-> <<>>, ranked |-> <<>>]
  ELSE IF env.search_fails
  THEN [raised |-> TRUE, recommendations |-> <<>>, ranked |-> <<>>]
  ELSE recommend_found(search_courses(env.catalog, env.any_query_fails,
                                      top_n_courses),
                       env.response, gaps, candidate_profile)

(***************************************************************************)
(* MatchingEngine.match_candidates and ResourceAgent.find_candidates: the  *)
(* pipeline over the candidates of the profile store                       *)
(***************************************************************************)
\* Config: fusion weights, retrieval size, match-quality thresholds
default_config ==
  [vector_search_weight |-> Rat(15, 100),
   llm_score_weight |-> Rat(25, 100),
   rule_score_weight |-> Rat(60, 100)]
top_n_candidates == 10
match_threshold_strong == Rat(75, 100)
match_threshold_moderate == Rat(50, 100)

\* the similarity threshold written into the SQL of vector_search
search_threshold == Rat(3, 10)

\* llm_rerank: number of candidates per prompt
batch_size == 5

\* list[n:]
Drop(list, n) ==
  SubSeq(list, (IF n < Len(list) THEN n ELSE Len(list)) + 1, Len(list))

\* the profiles whose similarity to the query reaches the threshold
profiles_above(store, threshold) ==
  SelectSeq(store, LAMBDA row : RLeq(threshold, row.similarity))

\* cosine_similarity_search_candidates(embedding, threshold, limit)
cosine_similarity_search_candidates(store, threshold, limit) ==
  Take(by_similarity(profiles_above(store, threshold)), limit)

\* MatchingEngine.vector_search: the embedding call and the query run
\* unguarded, so a failure of either leaves the method by an exception
vector_search(store, env, top_n) ==
  IF env.embedding_fails \/ env.query_fails
  THEN [raised |-> TRUE, results |-> <<>>]
  ELSE [raised |-> FALSE,
        results |-> cosine_similarity_search_candidates(
                      store, search_threshold, top_n)]

\* the defaults of _rerank_batch for a candidate without an LLM result
candidate_llm_default(candidate) ==
  SetField(SetField(SetField(SetField(SetField(candidate,
    "llm_score", Zero), "matched_skills", <<>>), "missing_skills", <<>>),
    "proficiency_insights", ""), "evidence_snippets", <<>>)

\* the body of `if 0 <= idx < len(candidates)` for one result
candidate_with_result(candidate, result) ==
  SetField(SetField(SetField(SetField(SetField(candidate,
    "llm_score", Rat(GetOr(result, "relevance_score",
                           [type |-> "number", value |-> 0]).value, 100)),
    "matched_skills", GetOr(result, "matched_skills", <<>>)),
    "missing_skills", GetOr(result, "missing_skills", <<>>)),
    "proficiency_insights", GetOr(result, "proficiency_insights", "")),
    "evidence_snippets", GetOr(result, "evidence_snippets", <<>>))

\* one iteration of the loop over results at index idx of the result
map_candidate_result(candidates, result, idx) ==
  IF 0 <= idx /\ idx < Len(candidates)
  THEN [candidates EXCEPT
          ![idx + 1] = candidate_with_result(candidates[idx + 1], result)]
  ELSE candidates

\* the loop over results: the candidates after it, or "raised" when an
\* iteration raises
RECURSIVE map_candidate_results(_, _)
map_candidate_results(candidates, results) ==
  IF results = <<>> THEN [raised |-> FALSE, candidates |-> candidates]
  ELSE IF /\ 0 <= GetOr(Head(results), "candidate_index", 0)
          /\ GetOr(Head(results), "candidate_index", 0) < Len(candidates)
          /\ score_raises(Head(results))
  THEN [raised |-> TRUE, candidates |-> candidates]
  ELSE map_candidate_results(
         map_candidate_result(candidates, Head(results),
                              GetOr(Head(results), "candidate_index", 0)),
         Tail(results))

\* variant of default_unscored that leaves the candidates as the loop over
\* results left them
default_unscored_skipped(candidates) == candidates

\* `if "llm_score" not in candidate`: defaults for the candidates the loop
\* over results did not reach
default_unscored(candidates) ==
  [i \in 1..Len(candidates) |->
     IF "llm_score" \in DOMAIN candidates[i] THEN candidates[i]
     ELSE candidate_llm_default(candidates[i])]

\* variant of recover_batch that only logs the exception
recover_batch_log_only(candidates) == candidates

\* the except block of _rerank_batch: defaults on every candidate of the
\* batch
recover_batch(candidates) ==
  [i \in 1..Len(candidates) |-> candidate_llm_default(candidates[i])]

\* the try block's outcome turned into the batch returned
after_candidate_results(outcome) ==
  IF outcome.raised THEN recover_batch(outcome.candidates)
  ELSE default_unscored(outcome.candidates)

\* MatchingEngine._rerank_batch; response is what invoke_model_json does for
\* the prompt of this batch: it raises, or returns a JSON array or object
rerank_batch(candidates, response) ==
  IF response.raises THEN recover_batch(candidates)
  ELSE after_candidate_results(
         map_candidate_results(candidates, as_list(response)))

\* the loop of llm_rerank from batch number b (1-based) on
RECURSIVE rerank_batches(_, _, _)
rerank_batches(candidates, responses, b) ==
  IF candidates = <<>> THEN <<>>
  ELSE rerank_batch(Take(candidates, batch_size), responses[b])
       \o rerank_batches(Drop(candidates, batch_size), responses, b + 1)

\* variant of llm_invocations that calls again for a batch whose call failed
RECURSIVE llm_invocations_with_retry(_, _, _)
llm_invocations_with_retry(candidates, responses, b) ==
  IF candidates = <<>> THEN <<>>
  ELSE (IF responses[b].raises THEN << b, b >> ELSE << b >>)
       \o llm_invocations_with_retry(Drop(candidates, batch_size), responses,
                                     b + 1)

\* the calls of invoke_model_json llm_rerank makes from batch number b on:
\* one in each _rerank_batch, whatever the call does
RECURSIVE llm_invocations(_, _, _)
llm_invocations(candidates, responses, b) ==
  IF candidates = <<>> THEN <<>>
  ELSE << b >> \o llm_invocations(Drop(candidates, batch_size), responses,
                                  b + 1)

\* variant of llm_rerank that hands all candidates to one prompt
llm_rerank_unbatched(candidates, responses) ==
  IF candidates = <<>> THEN <<>>
  ELSE rerank_batch(candidates, responses[1])

\* MatchingEngine.llm_rerank
llm_rerank(candidates, responses) ==
  IF candidates = <<>> THEN <<>>
  ELSE rerank_batches(candidates, responses, 1)

\* the assignments of Step 3 to one candidate
with_scores(candidate, rule_score, final_score, gaps) ==
  SetField(SetField(SetField(SetField(candidate,
    "rule_score", rule_score), "final_score", final_score),
    "match_percentage", RoundHalfEven(RMul(final_score, Rat(100, 1)))),
    "gaps", gaps)

\* the final score of Step 3 from the candidate's three scores
fused_score(config, candidate, rule_score) ==
  calculate_final_score(config, GetOr(candidate, "similarity", Zero),
                        GetOr(candidate, "llm_score", Zero), rule_score)

\* Step 3 of match_candidates for one candidate
score_candidate(config, candidate, parsed_requirement, rule_score) ==
  with_scores(candidate, rule_score,
              fused_score(config, candidate, rule_score),
              analyze_gaps(candidate, parsed_requirement.required_skills,
                           parsed_requirement.min_years_per_skill))

\* the loop of Step 3 of match_candidates over the candidates
score_candidates(config, candidates, parsed_requirement) ==
  [i \in 1..Len(candidates) |->
     score_candidate(config, candidates[i], parsed_requirement,
                     rule_based_scoring(candidates[i],
                                        parsed_requirement).total)]

\* Step 3 of match_candidates, then the sort and candidates[:top_n]
score_and_rank(config, candidates, parsed_requirement, top_n) ==
  Take(sort_by_final_score(
         score_candidates(config, candidates, parsed_requirement), <<>>),
       top_n)

\* find_candidates: match_quality from match_percentage and the thresholds
match_quality(match_pct) ==
  IF RLeq(RMul(match_threshold_strong, Rat(100, 1)), Rat(match_pct, 1))
  THEN "strong"
  ELSE IF RLeq(RMul(match_threshold_moderate, Rat(100, 1)), Rat(match_pct, 1))
  THEN "moderate"
  ELSE "weak"

\* find_candidates: the body of the loop for one candidate
enhance_candidate(candidate, domain_gap) ==
  SetField(SetField(candidate, "gaps", candidate.gaps \o domain_gap),
           "match_quality",
           match_quality(GetOr(candidate, "match_percentage", 0)))

\* find_candidates: the loop over the candidates match_candidates returned
enhance_candidates(candidates, parsed_requirement) ==
  [i \in 1..Len(candidates) |->
     enhance_candidate(candidates[i],
                       analyze_domain_gap(candidates[i],
                                          parsed_requirement.domain))]

(***************************************************************************)
(* Inputs of the normalizer scenario                                       *)
(***************************************************************************)
\* every string listed in some variation group
DeclaredVariations ==
  UNION { {SKILL_VARIATIONS[g].variations[i] :
             i \in 1..Len(SKILL_VARIATIONS[g].variations)} :
          g \in 1..Len(SKILL_VARIATIONS) }

\* raw skill names as an upstream extraction may spell them
RawSkillSamples ==
  { <<"P", "y", "T", "o", "r", "c", "h">>,
    <<"V", "u", "e", ".", "j", "s">>,
    <<"I", "n", "t", "e", "r", "e", "s", "t">>,
    <<"a", " ", "-", " ", "b">>,
    <<"m", "y", " ", "-", " ", "s", "q", "l">>,
    <<"A", "n", "g", "u", "l", "a", "r">>,
    <<>>,
    <<" ", " ">>,
    <<"C", "+", "+">>,
    <<"J", "a", "v", "a">>,
    <<"R", "e", "a", "c", "t", "J", "S">>,
    <<"S", "p", "r", "i", "n", "g", "_", "B", "o", "o", "t">>,
    <<" ", "j", "a", "v", "a", "\t">>,
    <<"A", "W", "S">>,
    <<"o", "b", "j", "e", "c", "t", "s">>,
    <<"N", "o", "d", "e", ".", "J", "S">>,
    <<"J", "A", "V", "A", " ", "D", "e", "v", "e", "l", "o", "p", "m", "e", "n", "t">>,
    <<"D", "o", "c", "k", "e", "r">> }

SmallAlphabet == {"j", "s", "-", " ", "."}

\* every string over SmallAlphabet of length at most MaxLen
SmallStrings == UNION { [1..n -> SmallAlphabet] : n \in 0..MaxLen }

SkillInputsA == DeclaredVariations \cup RawSkillSamples \cup SmallStrings
SkillInputsB == DeclaredVariations \cup RawSkillSamples

\* names a caller holds in the set it hands to has_skill_or_equivalent: the
\* normalized forms of raw names, and the names the dependency table implies
SkillSetNames ==
  {normalize_skill(s) : s \in DeclaredVariations \cup RawSkillSamples}
  \cup UNION { ToSet(SKILL_DEPENDENCIES[d].implied) :
               d \in 1..Len(SKILL_DEPENDENCIES) }

\* the sets of at most MaxSkills such names
SkillSets == {S \in SUBSET SkillSetNames : Cardinality(S) <= MaxSkills}

(***************************************************************************)
(* Inputs of the course scenario                                           *)
(***************************************************************************)
\* gaps as analyze_gaps emits them
GapKinds ==
  { [skill |-> <<"A", "W", "S">>, gap_type |-> "missing", severity |-> "high"],
    [skill |-> <<"J", "a", "v", "a">>, gap_type |-> "insufficient", severity |-> "medium"] }

GapLists == UNION { [1..n -> GapKinds] : n \in 0..MaxGaps }

\* similarity of a course to the gap query and to the broader query:
\* above 0.3, between 0.1 and 0.3, reached by the broader query only, never
SimilarityProfiles ==
  { [gap_query |-> Rat(6, 10), broader_query |-> Rat(6, 10)],
    [gap_query |-> Rat(2, 10), broader_query |-> Rat(2, 10)],
    [gap_query |-> Rat(5, 100), broader_query |-> Rat(2, 10)],
    [gap_query |-> Rat(5, 100), broader_query |-> Rat(5, 100)] }

\* the i-th course of a catalog, oldest first
CatalogCourse(i, similarity, level_is_null) ==
  [id |-> i, title |-> "course",
   description |-> IF i % 2 = 1 THEN <<"H", "a", "n", "d", "s", "-", "o", "n", " ", "l", "a", "b">>
                   ELSE <<"T", "h", "e", "o", "r", "y">>,
   level |-> IF level_is_null THEN NULL
             ELSE IF i % 2 = 1 THEN <<"A", "d", "v", "a", "n", "c", "e", "d">>
             ELSE <<"b", "e", "g", "i", "n", "n", "e", "r">>,
   prerequisites |-> IF i % 2 = 1 THEN << <<"j", "a", "v", "a">> >>
                     ELSE << <<"P", "y", "t", "h", "o", "n", " ", "b", "a", "s", "i", "c", "s">> >>,
   similarity |-> similarity]

\* catalogs of at most MaxCourses courses; the newest may lack a level
Catalogs ==
  UNION { { [i \in 1..n |-> CatalogCourse(i, sims[i], null_level /\ i = n)] :
              sims \in [1..n -> SimilarityProfiles],
              null_level \in BOOLEAN } :
          n \in 0..MaxCourses }

\* what invoke_model_json does for the course prompt
CourseResponses ==
  { [raises |-> TRUE],
    [raises |-> FALSE, is_list |-> TRUE, array |-> <<>>],
    [raises |-> FALSE, is_list |-> TRUE, array |->
       << [course_index |-> 0,
           relevance_score |-> [type |-> "number", value |-> 90],
           rationale |-> "covers the gap",
           gaps_addressed |-> << <<"A", "W", "S">> >>] >>],
    [raises |-> FALSE, is_list |-> TRUE, array |->
       << [course_index |-> 0,
           relevance_score |-> [type |-> "number", value |-> 90],
           rationale |-> "covers all gaps",
           gaps_addressed |-> << <<"A", "W", "S">>, <<"J", "a", "v", "a">>, <<"S", "p", "r", "i", "n", "g">>,
                                 <<"A", "W", "S">> >>],
          [course_index |-> 1,
           relevance_score |-> [type |-> "number", value |-> 40],
           rationale |-> "covers one gap",
           gaps_addressed |-> << <<"J", "a", "v", "a">> >>] >>],
    [raises |-> FALSE, is_list |-> TRUE, array |->
       << [course_index |-> 2,
           relevance_score |-> [type |-> "number", value |-> 100]],
          [course_index |-> 7,
           relevance_score |-> [type |-> "number", value |-> 50]],
          [course_index |-> -1,
           relevance_score |-> [type |-> "number", value |-> 50]] >>],
    [raises |-> FALSE, is_list |-> FALSE, object |->
       [relevance_score |-> [type |-> "number", value |-> 80],
        gaps_addressed |-> << <<"A", "W", "S">> >>]],
    [raises |-> FALSE, is_list |-> TRUE, array |->
       << [course_index |-> 0,
           relevance_score |-> [type |-> "number", value |-> 90],
           rationale |-> "covers the cloud gap",
           gaps_addressed |-> << <<"A", "W", "S">>, <<"C", "l", "o", "u", "d">> >>] >>],
    [raises |-> FALSE, is_list |-> TRUE, array |->
       << [course_index |-> 0,
           relevance_score |-> [type |-> "number", value |-> 90]],
          [course_index |-> 1,
           relevance_score |-> [type |-> "string", value |-> "high"]] >>] }

\* the embedding or the first search fails, or only the last query does
CourseEnvs ==
  { [catalog |-> c, response |-> r,
     search_fails |-> f = "search", any_query_fails |-> f = "any_query"] :
      c \in Catalogs, r \in CourseResponses,
      f \in {"none", "search", "any_query"} }

CourseProfiles ==
  { [extracted_skills |->
       << [k |-> <<"J", "a", "v", "a">>,
           v |-> << [k |-> "proficiency", v |-> <<"e", "x", "p", "e", "r", "t">>] >>] >>] }

(***************************************************************************)
(* Inputs of the pipeline scenario                                         *)
(***************************************************************************)
\* the three kinds of stored profile with their similarity to the query:
\* a senior Java profile, a junior one, and an unrelated one that stays
\* below the search threshold
ProfileRow(kind, id) ==
  IF kind = "senior"
  THEN [id |-> id, name |-> "senior",
        extracted_skills |->
          << [k |-> <<"J", "a", "v", "a">>, v |-> << [k |-> "proficiency", v |-> <<"e", "x", "p", "e", "r", "t">>] >>] >>,
        years_of_experience |-> << [k |-> <<"J", "a", "v", "a">>, v |-> 5] >>,
        domain_tags |-> << <<"F", "i", "n", "a", "n", "c", "e">> >>,
        similarity |-> Rat(8, 10)]
  ELSE IF kind = "junior"
  THEN [id |-> id, name |-> "junior",
        extracted_skills |->
          << [k |-> <<"J", "a", "v", "a">>, v |-> << [k |-> "proficiency", v |-> <<"b", "e", "g", "i", "n", "n", "e", "r">>] >>] >>,
        years_of_experience |-> <<>>,
        domain_tags |-> <<>>,
        similarity |-> Rat(5, 10)]
  ELSE [id |-> id, name |-> "unrelated",
        extracted_skills |->
          << [k |-> <<"A", "W", "S">>, v |-> << [k |-> "proficiency", v |-> <<"e", "x", "p", "e", "r", "t">>] >>] >>,
        years_of_experience |-> <<>>,
        domain_tags |-> <<>>,
        similarity |-> Rat(2, 10)]

\* a store of j junior, s senior and u unrelated profiles, in this order
StoreOf(j, s, u) ==
  [i \in 1..(j + s + u) |->
     ProfileRow(IF i <= j THEN "junior"
                ELSE IF i <= j + s THEN "senior" ELSE "unrelated", i)]

Stores ==
  { StoreOf(c[1], c[2], c[3]) :
      c \in { c \in (0..MaxCandidates) \X (0..MaxCandidates)
                       \X (0..MaxCandidates) :
                c[1] + c[2] + c[3] <= MaxCandidates } }

PipeRequirements ==
  { [required_skills |-> << <<"J", "a", "v", "a">> >>, preferred_skills |-> <<>>,
     domain |-> <<"H", "e", "a", "l", "t", "h", "c", "a", "r", "e">>,
     min_years_per_skill |-> << [k |-> <<"J", "a", "v", "a">>, v |-> 3] >>],
    [required_skills |-> << <<"J", "a", "v", "a">>, <<"A", "W", "S">> >>, preferred_skills |-> <<>>,
     domain |-> <<>>, min_years_per_skill |-> <<>>] }

\* what invoke_model_json does for the prompt of one batch
PipeResponses ==
  { [raises |-> TRUE],
    [raises |-> FALSE, is_list |-> TRUE, array |-> <<>>],
    [raises |-> FALSE, is_list |-> TRUE, array |->
       << [candidate_index |-> 0,
           relevance_score |-> [type |-> "number", value |-> 90],
           matched_skills |-> << <<"J", "a", "v", "a">> >>,
           missing_skills |-> << <<"A", "W", "S">> >>,
           proficiency_insights |-> "strong",
           evidence_snippets |-> << "five years of Java" >>],
          [candidate_index |-> 1,
           relevance_score |-> [type |-> "number", value |-> 40],
           matched_skills |-> << <<"J", "a", "v", "a">> >>],
          [candidate_index |-> 2,
           relevance_score |-> [type |-> "number", value |-> 60]] >>],
    [raises |-> FALSE, is_list |-> TRUE, array |->
       << [candidate_index |-> 7,
           relevance_score |-> [type |-> "number", value |-> 50]],
          [candidate_index |-> -1,
           relevance_score |-> [type |-> "number", value |-> 50]] >>],
    [raises |-> FALSE, is_list |-> FALSE, object |->
       [candidate_index |-> 1,
        relevance_score |-> [type |-> "number", value |-> 85],
        matched_skills |-> << <<"J", "a", "v", "a">> >>]],
    [raises |-> FALSE, is_list |-> FALSE, object |->
       [relevance_score |-> [type |-> "number", value |-> 70]]],
    [raises |-> FALSE, is_list |-> TRUE, array |->
       << [candidate_index |-> 1,
           relevance_score |-> [type |-> "number", value |-> 90]],
          [candidate_index |-> 0,
           relevance_score |-> [type |-> "string", value |-> "high"]] >>] }

\* number of prompts llm_rerank can send for the largest store
MaxBatches == (MaxCandidates + batch_size - 1) \div batch_size

\* the embedding call fails, the query fails, or both work and the LLM
\* answers each batch in its own way
PipeEnvs ==
  { [embedding_fails |-> FALSE, query_fails |-> FALSE, responses |-> r] :
      r \in [1..MaxBatches -> PipeResponses] }
  \cup
  { [embedding_fails |-> f = "embedding", query_fails |-> f = "query",
     responses |-> [b \in 1..MaxBatches |-> [raises |-> TRUE]]] :
      f \in {"embedding", "query"} }

\* top_n of find_candidates: its default, and what the orchestrator passes
TopNChoices == {3, 10}

(***************************************************************************)
(* Inputs of the matching scenarios                                        *)
(***************************************************************************)
\* proficiency levels as an upstream extraction may write them
ProficiencyLevels ==
  { <<"e", "x", "p", "e", "r", "t">>, <<"A", "d", "v", "a", "n", "c", "e", "d">>, <<"i", "n", "t", "e", "r", "m", "e", "d", "i", "a", "t", "e">>, <<"b", "e", "g", "i", "n", "n", "e", "r">>, <<"g", "u", "r", "u">> }

\* the record stored under a skill: with or without a proficiency
SkillDataChoices ==
  { <<>> } \cup { << [k |-> "proficiency", v |-> p] >> : p \in ProficiencyLevels }

IsInjective(s) == \A i, j \in 1..Len(s) : s[i] = s[j] => i = j

SkillKeySeqs ==
  UNION { {s \in [1..n -> CandidateSkillKeys] : IsInjective(s)} :
          n \in 0..MaxSkills }

\* years_of_experience: nothing recorded, or the same number for every key
YearsChoices(keys) ==
  { <<>> } \cup
  { [i \in 1..Len(keys) |-> [k |-> keys[i], v |-> y]] : y \in {1, 5} }

MinYearsChoices ==
  { <<>>,
    << [k |-> <<"J", "a", "v", "a">>, v |-> 3] >>,
    << [k |-> <<"J", "a", "v", "a">>, v |-> 3], [k |-> <<"S", "p", "r", "i", "n", "g">>, v |-> 3] >> }

RequiredSeqs == UNION { [1..n -> RequiredSkillNames] : n \in 0..MaxRequired }

PreferredChoices == { <<>>, << <<"J", "a", "v", "a">>, <<"A", "W", "S">> >> }

DomainChoices == { <<>>, <<" ", " ">>, <<"H", "e", "a", "l", "t", "h", "c", "a", "r", "e">>, <<"h", "e", "a", "l", "t", "h">> }

DomainTagChoices ==
  { <<>>, << <<"F", "i", "n", "a", "n", "c", "e">> >>, << <<"F", "i", "n", "a", "n", "c", "e">>, <<"H", "e", "a", "l", "t", "h">> >>, << <<"H", "E", "A", "L", "T", "H", "C", "A", "R", "E">> >> }

\* candidates of the gap scenario: every proficiency on every entry, no tags
GapCandidates ==
  UNION { { [extracted_skills |->
               [i \in 1..Len(keys) |-> [k |-> keys[i], v |-> data[i]]],
             years_of_experience |-> yrs,
             domain_tags |-> <<>>] :
            data \in [1..Len(keys) -> SkillDataChoices],
            yrs \in YearsChoices(keys) } :
          keys \in SkillKeySeqs }

\* requirements of the gap scenario: preferred skills and domain unspecified
GapRequirements ==
  { [required_skills |-> rs, preferred_skills |-> <<>>, domain |-> <<>>,
     min_years_per_skill |-> my] :
    rs \in RequiredSeqs, my \in MinYearsChoices }

\* candidates of the rule scenario: expert entries, every tag list
RuleCandidates ==
  UNION { { [extracted_skills |->
               [i \in 1..Len(keys) |->
                  [k |-> keys[i],
                   v |-> << [k |-> "proficiency", v |-> <<"e", "x", "p", "e", "r", "t">>] >>]],
             years_of_experience |-> yrs,
             domain_tags |-> tags] :
            yrs \in YearsChoices(keys), tags \in DomainTagChoices } :
          keys \in SkillKeySeqs }

\* requirements of the rule scenario: every axis specified or not
RuleRequirements ==
  { [required_skills |-> rs, preferred_skills |-> ps, domain |-> d,
     min_years_per_skill |-> my] :
    rs \in RequiredSeqs, ps \in PreferredChoices, d \in DomainChoices,
    my \in MinYearsChoices }

\* fusion weights (Config) and scores handed to calculate_final_score
WeightChoices == { Rat(-1, 2), Zero, Rat(15, 100), Rat(25, 100), Rat(60, 100),
                   One, Rat(3, 2) }
SimilarityChoices == { Rat(3, 10), Rat(1, 2), One }
LlmScoreChoices == { Rat(-1, 5), Zero, Rat(1, 2), Rat(85, 100), One, Rat(3, 2) }
RuleScoreChoices == { Zero, Rat(1, 3), Rat(85, 100), One }

FusionInputs ==
  { [config |-> [vector_search_weight |-> wv, llm_score_weight |-> wl,
                 rule_score_weight |-> wr],
     similarity |-> s, llm_score |-> l, rule_score |-> r] :
    wv \in WeightChoices, wl \in WeightChoices, wr \in WeightChoices,
    s \in SimilarityChoices, l \in LlmScoreChoices, r \in RuleScoreChoices }

(***************************************************************************)
(* Values of the variables a scenario does not use                         *)
(***************************************************************************)
NormIdle ==
  /\ skillA = <<>> /\ skillB = <<>>
  /\ normA = <<>> /\ normB = <<>> /\ matchAB = FALSE

NoRuleResult == [scores |-> <<>>, total |-> Zero]

MatchIdle ==
  /\ cand = [extracted_skills |-> <<>>, years_of_experience |-> <<>>,
             domain_tags |-> <<>>]
  /\ req = [required_skills |-> <<>>, preferred_skills |-> <<>>,
            domain |-> <<>>, min_years_per_skill |-> <<>>]
  /\ ruleResult = NoRuleResult
  /\ gapList = <<>>
  /\ domainGap = <<>>

FusionIdle ==
  /\ fusionIn = [config |-> [vector_search_weight |-> Zero,
                             llm_score_weight |-> Zero,
                             rule_score_weight |-> Zero],
                 similarity |-> Zero, llm_score |-> Zero, rule_score |-> Zero]
  /\ finalScore = Zero
  /\ matchPercentage = 0

HasIdle ==
  /\ hasIn = [candidate_skills |-> {}, required_skill |-> <<>>]
  /\ hasSkill = FALSE

NoCourseOut == [raised |-> FALSE, recommendations |-> <<>>, ranked |-> <<>>]

CourseIdle ==
  /\ courseIn = [gaps |-> <<>>,
                 candidate_profile |-> [extracted_skills |-> <<>>],
                 env |-> [catalog |-> <<>>, search_fails |-> FALSE,
                          any_query_fails |-> FALSE,
                          response |-> [raises |-> TRUE]]]
  /\ courseOut = NoCourseOut
  /\ courseSteps = <<>>

PipeIdle ==
  /\ pipeIn = [store |-> <<>>,
               req |-> [required_skills |-> <<>>, preferred_skills |-> <<>>,
                        domain |-> <<>>, min_years_per_skill |-> <<>>],
               top_n |-> 0,
               env |-> [embedding_fails |-> FALSE, query_fails |-> FALSE,
                        responses |-> <<>>]]
  /\ pipeSearches = <<>>
  /\ pipeRetrieved = <<>>
  /\ pipeLlmCalls = <<>>
  /\ pipeScored = <<>>
  /\ pipeCands = <<>>

(***************************************************************************)
(* Scenario "norm": normalize two raw skills, then compare them            *)
(***************************************************************************)
InitNorm ==
  /\ pc = "norm_start"
  /\ skillA \in SkillInputsA
  /\ skillB \in SkillInputsB
  /\ normA = <<>> /\ normB = <<>> /\ matchAB = FALSE
  /\ MatchIdle /\ FusionIdle /\ HasIdle /\ CourseIdle /\ PipeIdle

\* the caller normalizes both names
Normalize ==
  /\ pc = "norm_start"
  /\ normA' = normalize_skill(skillA)
  /\ normB' = normalize_skill(skillB)
  /\ pc' = "norm_normalized"
  /\ UNCHANGED <<skillA, skillB, matchAB, matchVars, fusionVars, hasVars, courseVars, pipeVars>>

\* the caller compares the two raw names
Match ==
  /\ pc = "norm_normalized"
  /\ matchAB' = skills_match(skillA, skillB)
  /\ pc' = "norm_done"
  /\ UNCHANGED <<skillA, skillB, normA, normB, matchVars, fusionVars, hasVars, courseVars, pipeVars>>

NextNorm == Normalize \/ Match

SpecNorm == InitNorm /\ [][NextNorm]_vars

(***************************************************************************)
(* Scenarios "gap" and "rule": one candidate through Step 3 of             *)
(* match_candidates (rule score, gap analysis), then through the domain    *)
(* gap of ResourceAgent.find_candidates                                    *)
(***************************************************************************)
InitGap ==
  /\ pc = "match_start"
  /\ cand \in GapCandidates
  /\ req \in GapRequirements
  /\ ruleResult = NoRuleResult /\ gapList = <<>> /\ domainGap = <<>>
  /\ NormIdle /\ FusionIdle /\ HasIdle /\ CourseIdle /\ PipeIdle

InitRule ==
  /\ pc = "match_start"
  /\ cand \in RuleCandidates
  /\ req \in RuleRequirements
  /\ ruleResult = NoRuleResult /\ gapList = <<>> /\ domainGap = <<>>
  /\ NormIdle /\ FusionIdle /\ HasIdle /\ CourseIdle /\ PipeIdle

\* match_candidates, body of the loop of Step 3 for one candidate
AnalyzeCandidate ==
  /\ pc = "match_start"
  /\ ruleResult' = rule_based_scoring(cand, req)
  /\ gapList' = analyze_gaps(cand, req.required_skills,
                             req.min_years_per_skill)
  /\ pc' = "match_analyzed"
  /\ UNCHANGED <<cand, req, domainGap, normVars, fusionVars, hasVars, courseVars, pipeVars>>

\* find_candidates: the domain gap, appended to candidate["gaps"] if any
AttachDomainGap ==
  /\ pc = "match_analyzed"
  /\ domainGap' = analyze_domain_gap(cand, req.domain)
  /\ gapList' = gapList \o domainGap'
  /\ pc' = "match_done"
  /\ UNCHANGED <<cand, req, ruleResult, normVars, fusionVars, hasVars, courseVars, pipeVars>>

NextMatch == AnalyzeCandidate \/ AttachDomainGap

SpecGap == InitGap /\ [][NextMatch]_vars

SpecRule == InitRule /\ [][NextMatch]_vars

(***************************************************************************)
(* Scenario "fusion": Step 3 of match_candidates, the final score          *)
(***************************************************************************)
InitFusion ==
  /\ pc = "fusion_start"
  /\ fusionIn \in FusionInputs
  /\ finalScore = Zero
  /\ matchPercentage = 0
  /\ NormIdle /\ MatchIdle /\ HasIdle /\ CourseIdle /\ PipeIdle

\* final_score and match_percentage of one candidate
Fuse ==
  /\ pc = "fusion_start"
  /\ finalScore' = calculate_final_score(fusionIn.config, fusionIn.similarity,
                                         fusionIn.llm_score,
                                         fusionIn.rule_score)
  /\ matchPercentage' = RoundHalfEven(RMul(finalScore', Rat(100, 1)))
  /\ pc' = "fusion_done"
  /\ UNCHANGED <<fusionIn, normVars, matchVars, hasVars, courseVars, pipeVars>>

NextFusion == Fuse

SpecFusion == InitFusion /\ [][NextFusion]_vars

(***************************************************************************)
(* Scenario "has": one call of has_skill_or_equivalent                     *)
(***************************************************************************)
InitHas ==
  /\ pc = "has_start"
  /\ hasIn \in [candidate_skills : SkillSets, required_skill : SkillInputsB]
  /\ hasSkill = FALSE
  /\ NormIdle /\ MatchIdle /\ FusionIdle /\ CourseIdle /\ PipeIdle

\* has_skill = SkillNormalizer.has_skill_or_equivalent(set, required_skill)
HasSkill ==
  /\ pc = "has_start"
  /\ hasSkill' = has_skill_or_equivalent(hasIn.candidate_skills,
                                         hasIn.required_skill)
  /\ pc' = "has_done"
  /\ UNCHANGED <<hasIn, normVars, matchVars, fusionVars, courseVars, pipeVars>>

NextHas == HasSkill

SpecHas == InitHas /\ [][NextHas]_vars

(***************************************************************************)
(* Scenario "course": one call of CourseAgent.recommend_courses            *)
(***************************************************************************)
InitCourse ==
  /\ pc = "course_start"
  /\ courseIn \in [gaps : GapLists, candidate_profile : CourseProfiles,
                    env : CourseEnvs]
  /\ courseOut = NoCourseOut /\ courseSteps = <<>>
  /\ NormIdle /\ MatchIdle /\ FusionIdle /\ HasIdle /\ PipeIdle

\* course_recommendations = course_agent.recommend_courses(gaps, candidate)
RecommendCourses ==
  /\ pc = "course_start"
  /\ courseOut' = recommend_courses(courseIn.gaps, courseIn.candidate_profile,
                                    courseIn.env)
  /\ courseSteps' = course_steps(courseIn.gaps, courseIn.env)
  /\ pc' = IF courseOut'.raised THEN "course_raised" ELSE "course_done"
  /\ UNCHANGED <<courseIn, normVars, matchVars, fusionVars, hasVars, pipeVars>>

NextCourse == RecommendCourses

SpecCourse == InitCourse /\ [][NextCourse]_vars

(***************************************************************************)
(* Scenario "pipeline": one call of ResourceAgent.find_candidates, stage   *)
(* by stage of MatchingEngine.match_candidates                             *)
(***************************************************************************)
InitPipeline ==
  /\ pc = "pipe_start"
  /\ pipeIn \in [store : Stores, req : PipeRequirements,
                  top_n : TopNChoices, env : PipeEnvs]
  /\ pipeSearches = <<>> /\ pipeRetrieved = <<>> /\ pipeCands = <<>>
  /\ pipeLlmCalls = <<>> /\ pipeScored = <<>>
  /\ NormIdle /\ MatchIdle /\ FusionIdle /\ HasIdle /\ CourseIdle

\* match_candidates, Step 1: vector_search, and `return []` when it found
\* nothing; an exception of vector_search leaves match_candidates and
\* find_candidates
VectorSearch ==
  /\ pc = "pipe_start"
  /\ pipeSearches' = IF pipeIn.env.embedding_fails THEN <<>>
                     ELSE << search_threshold >>
  /\ pipeRetrieved' = vector_search(pipeIn.store, pipeIn.env,
                                    top_n_candidates).results
  /\ pipeCands' = pipeRetrieved'
  /\ pc' = IF vector_search(pipeIn.store, pipeIn.env,
                            top_n_candidates).raised THEN "pipe_raised"
           ELSE IF pipeRetrieved' = <<>> THEN "pipe_returned"
           ELSE "pipe_retrieved"
  /\ UNCHANGED <<pipeIn, pipeLlmCalls, pipeScored,
                 normVars, matchVars, fusionVars, hasVars, courseVars>>

\* match_candidates, Step 2: llm_rerank
LlmRerank ==
  /\ pc = "pipe_retrieved"
  /\ pipeCands' = llm_rerank(pipeCands, pipeIn.env.responses)
  /\ pipeLlmCalls' = llm_invocations(pipeCands, pipeIn.env.responses, 1)
  /\ pc' = "pipe_reranked"
  /\ UNCHANGED <<pipeIn, pipeSearches, pipeRetrieved, pipeScored,
                 normVars, matchVars, fusionVars, hasVars, courseVars>>

\* match_candidates, Step 3, the sort and the return of candidates[:top_n]
ScoreAndRank ==
  /\ pc = "pipe_reranked"
  /\ pipeScored' = score_candidates(default_config, pipeCands, pipeIn.req)
  /\ pipeCands' = score_and_rank(default_config, pipeCands, pipeIn.req,
                                 pipeIn.top_n)
  /\ pc' = "pipe_returned"
  /\ UNCHANGED <<pipeIn, pipeSearches, pipeRetrieved, pipeLlmCalls,
                 normVars, matchVars, fusionVars, hasVars, courseVars>>

\* find_candidates: the loop over the candidates match_candidates returned
EnhanceCandidates ==
  /\ pc = "pipe_returned"
  /\ pipeCands' = enhance_candidates(pipeCands, pipeIn.req)
  /\ pc' = "pipe_found"
  /\ UNCHANGED <<pipeIn, pipeSearches, pipeRetrieved, pipeLlmCalls, pipeScored,
                 normVars, matchVars, fusionVars, hasVars, courseVars>>

NextPipeline == VectorSearch \/ LlmRerank \/ ScoreAndRank \/ EnhanceCandidates

SpecPipeline == InitPipeline /\ [][NextPipeline]_vars

(***************************************************************************)
(* All scenarios together                                                  *)
(***************************************************************************)
Init ==
  InitNorm \/ InitGap \/ InitRule \/ InitFusion \/ InitHas \/ InitCourse
  \/ InitPipeline
Next ==
  NextNorm \/ NextMatch \/ NextFusion \/ NextHas \/ NextCourse
  \/ NextPipeline
Spec == Init /\ [][Next]_vars

(***************************************************************************)
(* Properties                                                              *)
(***************************************************************************)
\* x occurs in y as a contiguous run of characters
IsSubstring(x, y) ==
  \E i \in 1..(Len(y) + 1), j \in 0..Len(y) : SubSeq(y, i, j) = x

\* a is obtained from b by deleting elements
RECURSIVE IsSubsequence(_, _)
IsSubsequence(a, b) ==
  IF a = <<>> THEN TRUE
  ELSE IF b = <<>> THEN FALSE
  ELSE IF Head(a) = Head(b) THEN IsSubsequence(Tail(a), Tail(b))
  ELSE IsSubsequence(a, Tail(b))

Occurrences(x, list) == Cardinality({i \in 1..Len(list) : list[i] = x})

GapsOf(r) == {i \in 1..Len(gapList) : gapList[i].skill = r}

AxisApplied(name) ==
  \E i \in 1..Len(ruleResult.scores) : ruleResult.scores[i].name = name

RECURSIVE WeightTotal(_)
WeightTotal(scores) ==
  IF scores = <<>> THEN 0 ELSE Head(scores).weight + WeightTotal(Tail(scores))

\* C1: in rule_based_scoring the weights of the axes actually applied sum to
\* exactly 1.0 for every combination of specified and unspecified preferred
\* skills, domain and minimum years; the required-skills axis carries 0.50
\* plus 0.20, 0.15 and 0.15 for each of these axes that is not applied, hence
\* 1.0 when none is.
C1_WeightsSumToOne ==
  pc \in {"match_analyzed", "match_done"} =>
    LET scores == ruleResult.scores
        required_weight == scores[Len(scores)].weight
    IN /\ scores[Len(scores)].name = "required_skills"
       /\ WeightTotal(scores) = 100
       /\ AxisApplied("preferred_skills") <=> req.preferred_skills # <<>>
       /\ AxisApplied("years") <=> req.min_years_per_skill # <<>>
       /\ req.domain = <<>> => ~AxisApplied("domain")
       /\ (\E i \in 1..Len(req.domain) : ~IsWhitespace(req.domain[i]))
            => AxisApplied("domain")
       /\ required_weight =
            50 + (IF AxisApplied("preferred_skills") THEN 0 ELSE 20)
               + (IF AxisApplied("domain") THEN 0 ELSE 15)
               + (IF AxisApplied("years") THEN 0 ELSE 15)
       /\ (/\ req.preferred_skills = <<>>
           /\ req.domain = <<>>
           /\ req.min_years_per_skill = <<>>) => required_weight = 100

\* preferred skills and minimum years specified, domain not: 0.20 + 0.15 + 0.65
C1_Witness ==
  /\ pc = "match_analyzed"
  /\ req.preferred_skills # <<>>
  /\ req.domain = <<>>
  /\ req.min_years_per_skill # <<>>
  /\ Len(ruleResult.scores) = 3
  /\ ruleResult.scores[1].weight = 20
  /\ ruleResult.scores[2].weight = 15
  /\ ruleResult.scores[3].weight = 65

\* C2: for every fusion weights and every similarity, llm_score and
\* rule_score, final_score lies in [0,1] and match_percentage is
\* final_score*100 rounded to the nearest integer (ties to even) and lies in
\* [0,100].
C2_FinalScoreInRange ==
  pc = "fusion_done" =>
    LET x    == RMul(finalScore, Rat(100, 1))
        dist == Abs(x[1] - matchPercentage * x[2])
    IN /\ RLeq(Zero, finalScore)
       /\ RLeq(finalScore, One)
       /\ matchPercentage \in 0..100
       /\ 2 * dist <= x[2]
       /\ 2 * dist = x[2] => matchPercentage % 2 = 0

\* a weighted sum above 1 (weights 1.5, 0.6, 1) is clamped to 1.0, i.e. 100%
C2_Witness ==
  /\ pc = "fusion_done"
  /\ fusionIn.config.vector_search_weight = Rat(3, 2)
  /\ fusionIn.config.llm_score_weight = Rat(60, 100)
  /\ fusionIn.config.rule_score_weight = One
  /\ fusionIn.similarity = One
  /\ fusionIn.llm_score = Rat(3, 2)
  /\ fusionIn.rule_score = One
  /\ finalScore = One
  /\ matchPercentage = 100

\* C3: analyze_gaps emits at most one gap per entry of required_skills, and
\* the skills of the gaps, named as the requirement writes them, form an
\* order-preserving sub-list of required_skills.
C3_OneGapPerSkillInOrder ==
  pc = "match_analyzed" =>
    /\ Len(gapList) <= Len(req.required_skills)
    /\ \A r \in ToSet(req.required_skills) :
         Cardinality(GapsOf(r)) <= Occurrences(r, req.required_skills)
    /\ IsSubsequence([i \in 1..Len(gapList) |-> gapList[i].skill],
                     req.required_skills)

\* AWS missing and Java held at beginner level: two gaps, in that order
C3_Witness ==
  /\ pc = "match_analyzed"
  /\ req.required_skills = << <<"A", "W", "S">>, <<"J", "a", "v", "a">> >>
  /\ Len(gapList) = 2
  /\ gapList[1].skill = <<"A", "W", "S">> /\ gapList[1].gap_type = "missing"
  /\ gapList[2].skill = <<"J", "a", "v", "a">> /\ gapList[2].gap_type = "insufficient"

\* C4: analyze_gaps emits {gap_type: missing, severity: high} for a required
\* skill exactly when no extracted skill matches it (by normalized name or
\* variation group) and no extracted skill implies it in one hop of
\* SKILL_DEPENDENCIES; the missing gap carries nothing else, and a candidate
\* without skills gets one missing/high gap per required skill.
C4_MissingIffNotHeldNorImplied ==
  pc = "match_analyzed" =>
    /\ \A r \in ToSet(req.required_skills) :
         LET keys    == ToSet(DictKeys(cand.extracted_skills))
             direct  == \E k \in keys : skills_match(k, r)
             implied == \E k \in keys :
                          \E d \in 1..Len(SKILL_DEPENDENCIES) :
                            /\ SKILL_DEPENDENCIES[d].skill = normalize(k)
                            /\ InList(normalize(r),
                                      SKILL_DEPENDENCIES[d].implied)
             missing == {i \in GapsOf(r) : gapList[i].gap_type = "missing"}
         IN /\ (direct \/ implied) => missing = {}
            /\ ~(direct \/ implied) =>
                 /\ missing = GapsOf(r)
                 /\ Cardinality(missing) = Occurrences(r, req.required_skills)
            /\ \A i \in missing :
                 gapList[i] = [skill |-> r, gap_type |-> "missing",
                               severity |-> "high"]
    /\ cand.extracted_skills = <<>> =>
         gapList = [i \in 1..Len(req.required_skills) |->
                      [skill |-> req.required_skills[i],
                       gap_type |-> "missing", severity |-> "high"]]

\* Spring Boot alone: Java is implied (no gap), AWS is missing
C4_Witness ==
  /\ pc = "match_analyzed"
  /\ DictKeys(cand.extracted_skills) = << <<"S", "p", "r", "i", "n", "g", " ", "B", "o", "o", "t">> >>
  /\ req.required_skills = << <<"J", "a", "v", "a">>, <<"A", "W", "S">> >>
  /\ gapList = << [skill |-> <<"A", "W", "S">>, gap_type |-> "missing",
                   severity |-> "high"] >>

\* C5: for a required skill the candidate holds in an entry with proficiency
\* score >= 0.5, whenever min_years_per_skill has a minimum for the required
\* skill and the years recorded for the entry (0 if none) are below it,
\* analyze_gaps emits an insufficient_experience gap with required_years,
\* candidate_years and severity high if the deficit exceeds 2, else medium,
\* however the candidate spells the skill.
C5_ExperienceGapWhateverSpelling ==
  pc = "match_analyzed" =>
    \A r \in ToSet(req.required_skills) :
      LET key   == actual_skill_key(cand, r)
          score == proficiency_score(DictGet(cand.extracted_skills, key, <<>>))
          required_years  == DictGet(req.min_years_per_skill, r, 0)
          candidate_years == DictGet(cand.years_of_experience, key, 0)
      IN (/\ key # NoKey
          /\ score >= 50
          /\ DictHas(req.min_years_per_skill, r)
          /\ candidate_years < required_years)
         => \E i \in GapsOf(r) :
              gapList[i] = [skill |-> r,
                            gap_type |-> "insufficient_experience",
                            severity |-> IF required_years - candidate_years > 2
                                         THEN "high" ELSE "medium",
                            required_years |-> required_years,
                            candidate_years |-> candidate_years]

\* C6: for a required skill matched to an entry of extracted_skills, the
\* entry's proficiency maps to expert=1.0, advanced=0.75, intermediate=0.5,
\* beginner=0.25, anything else or absent=0.0; below 0.5 exactly one gap
\* {gap_type: insufficient} is emitted per occurrence, severity high below
\* 0.25 and medium otherwise, and no experience gap; from 0.5 on no
\* insufficient gap is emitted.
C6_ProficiencyGap ==
  pc = "match_analyzed" =>
    \A r \in ToSet(req.required_skills) :
      LET key   == actual_skill_key(cand, r)
          level == lower(DictGet(DictGet(cand.extracted_skills, key, <<>>),
                                 "proficiency", <<>>))
          score == CASE level = <<"e", "x", "p", "e", "r", "t">>       -> 100
                     [] level = <<"a", "d", "v", "a", "n", "c", "e", "d">>    -> 75
                     [] level = <<"i", "n", "t", "e", "r", "m", "e", "d", "i", "a", "t", "e">> -> 50
                     [] level = <<"b", "e", "g", "i", "n", "n", "e", "r">>     -> 25
                     [] OTHER                  -> 0
      IN key # NoKey =>
           /\ score < 50 =>
                /\ Cardinality(GapsOf(r)) = Occurrences(r, req.required_skills)
                /\ \A i \in GapsOf(r) :
                     gapList[i] = [skill |-> r, gap_type |-> "insufficient",
                                   severity |-> IF score < 25 THEN "high"
                                                ELSE "medium"]
           /\ score >= 50 =>
                \A i \in GapsOf(r) : gapList[i].gap_type # "insufficient"

\* "java development" at beginner level with 1 year answers a requirement
\* for Java with a 3-year minimum: one insufficient/medium gap, no years gap
C6_Witness ==
  /\ pc = "match_analyzed"
  /\ cand.extracted_skills =
       << [k |-> <<"j", "a", "v", "a", " ", "d", "e", "v", "e", "l", "o", "p", "m", "e", "n", "t">>,
           v |-> << [k |-> "proficiency", v |-> <<"b", "e", "g", "i", "n", "n", "e", "r">>] >>] >>
  /\ cand.years_of_experience = << [k |-> <<"j", "a", "v", "a", " ", "d", "e", "v", "e", "l", "o", "p", "m", "e", "n", "t">>, v |-> 1] >>
  /\ req.required_skills = << <<"J", "a", "v", "a">> >>
  /\ req.min_years_per_skill = << [k |-> <<"J", "a", "v", "a">>, v |-> 3] >>
  /\ gapList = << [skill |-> <<"J", "a", "v", "a">>, gap_type |-> "insufficient",
                   severity |-> "medium"] >>

\* C7: analyze_domain_gap returns None for an empty required_domain;
\* otherwise it returns {skill: required_domain, gap_type: domain, severity:
\* medium} exactly when no domain tag, lower-cased, contains the lower-cased
\* required domain or is contained in it.
C7_DomainGap ==
  pc = "match_done" =>
    LET required == lower(req.domain)
        tag_matches ==
          \E i \in 1..Len(cand.domain_tags) :
            \/ IsSubstring(required, lower(cand.domain_tags[i]))
            \/ IsSubstring(lower(cand.domain_tags[i]), required)
    IN /\ req.domain = <<>> => domainGap = <<>>
       /\ (req.domain # <<>> /\ tag_matches) => domainGap = <<>>
       /\ (req.domain # <<>> /\ ~tag_matches) =>
            domainGap = << [skill |-> req.domain, gap_type |-> "domain",
                            severity |-> "medium"] >>

\* Healthcare required, the candidate's only tag is Finance
C7_Witness ==
  /\ pc = "match_done"
  /\ req.domain = <<"H", "e", "a", "l", "t", "h", "c", "a", "r", "e">>
  /\ cand.domain_tags = << <<"F", "i", "n", "a", "n", "c", "e">> >>
  /\ domainGap = << [skill |-> <<"H", "e", "a", "l", "t", "h", "c", "a", "r", "e">>, gap_type |-> "domain",
                     severity |-> "medium"] >>

\* C8: with preferred skills and domain unspecified, a candidate who has
\* every required skill as a key of extracted_skills at proficiency
\* intermediate or better and whose recorded years meet every stated minimum
\* gets rule score exactly 1.0 and an empty gap list.
C8_FullySatisfiedCandidate ==
  pc = "match_analyzed" =>
    LET holds(r) ==
          /\ DictHas(cand.extracted_skills, r)
          /\ lower(DictGet(DictGet(cand.extracted_skills, r, <<>>),
                           "proficiency", <<>>))
               \in {<<"e", "x", "p", "e", "r", "t">>, <<"a", "d", "v", "a", "n", "c", "e", "d">>, <<"i", "n", "t", "e", "r", "m", "e", "d", "i", "a", "t", "e">>}
        minima == req.min_years_per_skill
    IN (/\ req.preferred_skills = <<>>
        /\ req.domain = <<>>
        /\ \A r \in ToSet(req.required_skills) : holds(r)
        /\ \A j \in 1..Len(minima) :
             DictGet(cand.years_of_experience, minima[j].k, 0) >= minima[j].v)
       => /\ ruleResult.total = One
          /\ gapList = <<>>

\* C9: any two strings of the same declared variation group normalize to
\* that group's canonical name, so no listed variation is taken by a group
\* examined earlier, and skills_match holds between them.
C9_VariationGroupCanonical ==
  pc = "norm_done" =>
    \A g \in 1..Len(SKILL_VARIATIONS) :
      (/\ InList(skillA, SKILL_VARIATIONS[g].variations)
       /\ InList(skillB, SKILL_VARIATIONS[g].variations))
      => /\ normA = SKILL_VARIATIONS[g].standard
         /\ normB = SKILL_VARIATIONS[g].standard
         /\ matchAB = TRUE

\* "react js" contains the JavaScript variation "js" and still normalizes,
\* like "reactjs", to react.js
C9_Witness ==
  /\ pc = "norm_done"
  /\ skillA = <<"r", "e", "a", "c", "t", " ", "j", "s">>
  /\ skillB = <<"r", "e", "a", "c", "t", "j", "s">>
  /\ normA = <<"r", "e", "a", "c", "t", ".", "j", "s">>
  /\ normB = <<"r", "e", "a", "c", "t", ".", "j", "s">>
  /\ matchAB = TRUE

\* C10: normalize_skill returns a group's canonical name only when the
\* cleaned input is one of that group's declared variations; a skill whose
\* cleaned form is no declared variation is returned as its cleaned form.
C10_CanonicalOnlyForDeclaredVariation ==
  pc = "norm_done" =>
    LET cleaned == clean_skill(skillA)
        declared(g) == InList(cleaned, SKILL_VARIATIONS[g].variations)
    IN /\ \A g \in 1..Len(SKILL_VARIATIONS) :
            normA = SKILL_VARIATIONS[g].standard => declared(g)
       /\ (~ \E g \in 1..Len(SKILL_VARIATIONS) : declared(g))
            => normA = cleaned

\* the standard name and the declared variations of group g
GroupNames(g) ==
  {SKILL_VARIATIONS[g].standard} \cup ToSet(SKILL_VARIATIONS[g].variations)

\* a and b are the same skill: equal after normalization, or both names of
\* one variation group
VariationEquivalent(a, b) ==
  \/ normalize_skill(a) = normalize_skill(b)
  \/ \E g \in 1..Len(SKILL_VARIATIONS) : {a, b} \subseteq GroupNames(g)

\* the skills one edge of SKILL_DEPENDENCIES away from skill s
OneHop(s) ==
  UNION { ToSet(SKILL_DEPENDENCIES[d].implied) :
          d \in {e \in 1..Len(SKILL_DEPENDENCIES) :
                   SKILL_DEPENDENCIES[e].skill = normalize_skill(s)} }

\* C11: has_skill_or_equivalent(S, r) is true exactly when normalize(r)
\* equals or is variation-equivalent to a member of S, or is one hop of
\* SKILL_DEPENDENCIES away from a member of S; a set holding only
\* spring boot satisfies a requirement for Java.
C11_HasSkillOrEquivalent ==
  pc = "has_done" =>
    LET S == hasIn.candidate_skills
        r == normalize_skill(hasIn.required_skill)
    IN /\ hasSkill = ( \/ r \in S
                       \/ \E s \in S : VariationEquivalent(r, s)
                       \/ \E s \in S : r \in OneHop(s) )
       /\ (S = { <<"s", "p", "r", "i", "n", "g", " ", "b", "o", "o", "t">> }
            /\ r = <<"j", "a", "v", "a">>) => hasSkill

\* spring boot alone, asked for "java development": implied, not held
C11_Witness ==
  /\ pc = "has_done"
  /\ hasIn.candidate_skills =
       { <<"s", "p", "r", "i", "n", "g", " ", "b", "o", "o", "t">> }
  /\ hasIn.required_skill = <<"j", "a", "v", "a", " ", "d", "e", "v", "e", "l", "o", "p", "m", "e", "n", "t">>
  /\ hasSkill = TRUE

\* C12: recommend_courses never returns more than 2 recommendations, for any
\* number of gaps, any number of retrieved courses and any LLM response.
C12_AtMostTwoRecommendations ==
  pc = "course_done" => Len(courseOut.recommendations) <= 2

\* three gaps, three courses above the primary threshold: two recommendations
C12_Witness ==
  /\ pc = "course_done"
  /\ Len(courseIn.gaps) = 3
  /\ Len(courseIn.env.catalog) = 3
  /\ \A i \in 1..3 :
       courseIn.env.catalog[i].similarity.gap_query = Rat(6, 10)
  /\ Len(courseOut.recommendations) = 2

\* C13: recommend_courses returns an empty list only when the gaps list is
\* empty; for a non-empty gaps list it returns at least one recommendation,
\* also when every step of the search fallback chain yields no course.
C13_EmptyOnlyForNoGaps ==
  pc = "course_done" =>
    (courseOut.recommendations = <<>> <=> courseIn.gaps = <<>>)

\* the pipeline has returned (match_candidates, then find_candidates)
PipeReturned == pc \in {"pipe_returned", "pipe_found"}

\* C15: when the search at the primary threshold finds nobody, the pipeline
\* returns the empty list only after a further search at a lower threshold
\* has been sent to the store
C15_RelaxedSearchBeforeEmpty ==
  (PipeReturned /\ pipeRetrieved = <<>>) =>
    /\ pipeCands = <<>>
    /\ \E i \in 2..Len(pipeSearches) :
         RLess(pipeSearches[i], pipeSearches[1])

\* C16: when the embedding call or the store query raises, the pipeline does
\* not raise and returns the empty candidate list
C16_RetrievalFailureGivesEmptyList ==
  ((pipeIn.env.embedding_fails \/ pipeIn.env.query_fails)
   /\ pc # "pipe_start") =>
    (PipeReturned /\ pipeCands = <<>>)

\* Stage 2 has run on a non-empty retrieval
PipeReranked ==
  pc = "pipe_reranked" \/ (PipeReturned /\ pipeRetrieved # <<>>)

\* position (1-based) of the candidate with this id in the retrieved list,
\* the number of its batch and its index inside the batch
RetrievedPosition(id) ==
  CHOOSE p \in 1..Len(pipeRetrieved) : pipeRetrieved[p].id = id

BatchOf(id) == ((RetrievedPosition(id) - 1) \div batch_size) + 1

IndexInBatch(id) == (RetrievedPosition(id) - 1) % batch_size

\* the answer of the LLM call for the batch of this candidate
ResponseFor(id) == pipeIn.env.responses[BatchOf(id)]

\* the call raised (unavailable, unparseable JSON), or it returned records
\* one of which carries a score that is not a number
ResponseFails(r) ==
  \/ r.raises
  \/ /\ r.is_list
     /\ \E k \in 1..Len(r.array) :
          /\ "relevance_score" \in DOMAIN r.array[k]
          /\ r.array[k].relevance_score.type # "number"

\* the records a call returned: the elements of the array, or the one object
ReturnedRecords(r) ==
  IF r.raises THEN <<>>
  ELSE IF r.is_list THEN r.array ELSE << r.object >>

\* the in-batch index a record is for; a record that names none is read as
\* a record for index 0
RecordIndex(record) ==
  IF "candidate_index" \in DOMAIN record THEN record.candidate_index ELSE 0

\* the records of the response that are for the given in-batch index
RecordsFor(r, idx) ==
  {k \in 1..Len(ReturnedRecords(r)) : RecordIndex(ReturnedRecords(r)[k]) = idx}

\* the score the batch's own response gives the index: the last record for
\* it, 0 when there is none
OwnScore(r, idx) ==
  IF RecordsFor(r, idx) = {} THEN Zero
  ELSE Rat(ReturnedRecords(r)[CHOOSE k \in RecordsFor(r, idx) :
                                \A m \in RecordsFor(r, idx) : m <= k]
             .relevance_score.value, 100)

HasLlmDefaults(c) ==
  /\ {"llm_score", "matched_skills", "missing_skills"} \subseteq DOMAIN c
  /\ c.llm_score = Zero
  /\ c.matched_skills = <<>>
  /\ c.missing_skills = <<>>

\* C17: a failing LLM call of one batch (it raises, or its content cannot be
\* used) gives every candidate of that batch llm_score 0 and empty
\* matched_skills / missing_skills; the candidates of the other batches have
\* the score their own batch's response gives them; the pipeline raises only
\* when retrieval failed, and it returns min(top_n, retrieved) candidates,
\* each scored and gap-analysed, in descending order of final_score
C17_BatchFailureIsLocal ==
  /\ pc = "pipe_raised" =>
       (pipeIn.env.embedding_fails \/ pipeIn.env.query_fails)
  /\ PipeReranked =>
       \A i \in 1..Len(pipeCands) :
         IF ResponseFails(ResponseFor(pipeCands[i].id))
         THEN HasLlmDefaults(pipeCands[i])
         ELSE /\ "llm_score" \in DOMAIN pipeCands[i]
              /\ pipeCands[i].llm_score =
                   OwnScore(ResponseFor(pipeCands[i].id),
                            IndexInBatch(pipeCands[i].id))
  /\ (PipeReturned /\ pipeRetrieved # <<>>) =>
       /\ Len(pipeCands) = Min({pipeIn.top_n, Len(pipeRetrieved)})
       /\ \A i \in 1..Len(pipeCands) :
            {"rule_score", "final_score", "match_percentage", "gaps"}
              \subseteq DOMAIN pipeCands[i]
       /\ \A i \in 1..(Len(pipeCands) - 1) :
            RLeq(pipeCands[i + 1].final_score, pipeCands[i].final_score)

\* six candidates retrieved, the call for the first batch raised, the second
\* batch's response scored its candidate 90, and all six were returned
C17_Witness ==
  /\ pc = "pipe_returned"
  /\ Len(pipeRetrieved) = 6
  /\ pipeIn.env.responses[1].raises
  /\ ~ ResponseFails(pipeIn.env.responses[2])
  /\ Len(pipeCands) = 6
  /\ \E i \in 1..6 : /\ BatchOf(pipeCands[i].id) = 2
                     /\ pipeCands[i].llm_score = Rat(90, 100)
  /\ \A i \in 1..6 : BatchOf(pipeCands[i].id) = 1 =>
                       pipeCands[i].llm_score = Zero

\* no returned record is for this candidate's in-batch index
Unaddressed(id) == RecordsFor(ResponseFor(id), IndexInBatch(id)) = {}

C19_SingleObjectIsNoResult ==
  pc = "pipe_reranked" =>
    \A i \in 1..Len(pipeCands) :
      (/\ ~ ResponseFor(pipeCands[i].id).raises
       /\ ~ ResponseFor(pipeCands[i].id).is_list)
        => HasLlmDefaults(pipeCands[i])

\* C20: for every candidate the pipeline returns, no skill is both in the
\* candidate's matched_skills and the skill of one of the candidate's gaps
C20_MatchedSkillsExcludeGappedSkills ==
  PipeReturned =>
    \A i \in 1..Len(pipeCands) :
      \A g \in 1..Len(pipeCands[i].gaps) :
        ~ InList(pipeCands[i].gaps[g].skill, pipeCands[i].matched_skills)

\* the ids of the candidates of a list
IdsOf(list) == {list[i].id : i \in 1..Len(list)}

\* C21: match_candidates returns the first top_n of the scored candidates in
\* non-increasing order of final_score, candidates of equal final_score in
\* retrieval order; no candidate left out has a final_score above that of a
\* returned one
C21_SortedStableTruncated ==
  (pc = "pipe_returned" /\ pipeScored # <<>>) =>
    /\ Len(pipeCands) = Min({pipeIn.top_n, Len(pipeScored)})
    /\ \A i \in 1..Len(pipeCands) :
         \E k \in 1..Len(pipeScored) : pipeScored[k] = pipeCands[i]
    /\ \A i, j \in 1..Len(pipeCands) :
         i < j =>
           /\ pipeCands[i].id # pipeCands[j].id
           /\ RLeq(pipeCands[j].final_score, pipeCands[i].final_score)
           /\ pipeCands[j].final_score = pipeCands[i].final_score =>
                RetrievedPosition(pipeCands[i].id)
                  < RetrievedPosition(pipeCands[j].id)
    /\ \A k \in 1..Len(pipeScored) :
         pipeScored[k].id \notin IdsOf(pipeCands) =>
           \A i \in 1..Len(pipeCands) :
             RLeq(pipeScored[k].final_score, pipeCands[i].final_score)

\* more candidates scored than top_n, the retrieval order was not the order
\* of the scores, two returned candidates tie and one scores above another
C21_Witness ==
  /\ pc = "pipe_returned"
  /\ Len(pipeScored) > pipeIn.top_n
  /\ Len(pipeCands) = pipeIn.top_n
  /\ \E i, j \in 1..Len(pipeScored) :
       i < j /\ RLess(pipeScored[i].final_score, pipeScored[j].final_score)
  /\ \E i, j \in 1..Len(pipeCands) :
       i < j /\ pipeCands[i].final_score = pipeCands[j].final_score
  /\ \E i, j \in 1..Len(pipeCands) :
       RLess(pipeCands[j].final_score, pipeCands[i].final_score)

\* some catalog course reaches the threshold for the query
CatalogHits(query, threshold) ==
  \E i \in 1..Len(courseIn.env.catalog) :
    RLeq(threshold, courseIn.env.catalog[i].similarity[query])

\* the unfiltered query returns courses
AnyCourses == courseIn.env.catalog # <<>> /\ ~ courseIn.env.any_query_fails

\* the steps of the call without the re-rank
SearchesRun == SelectSeq(courseSteps, LAMBDA step : step # "rerank")

\* C22: the course search runs the primary search, then the lower threshold
\* on the same query, then the lower threshold on the broader query, then the
\* unfiltered query, each only when every earlier step was empty; the LLM
\* re-rank runs last and only when a step returned courses
C22_FallbackChainInOrder ==
  (pc \in {"course_done", "course_raised"} /\ ~ courseIn.env.search_fails) =>
    IF courseIn.gaps = <<>> THEN courseSteps = <<>>
    ELSE
      /\ SearchesRun =
           SubSeq(<< "primary", "lower", "broader", "any" >>, 1,
                  Len(SearchesRun))
      /\ Len(SearchesRun) >= 1
      /\ Len(SearchesRun) >= 2 <=> ~ CatalogHits("gap_query", Rat(3, 10))
      /\ Len(SearchesRun) >= 3 <=> ~ CatalogHits("gap_query", Rat(1, 10))
      /\ Len(SearchesRun) = 4 <=>
           (~ CatalogHits("gap_query", Rat(1, 10))
            /\ ~ CatalogHits("broader_query", Rat(1, 10)))
      /\ \A i \in 1..Len(courseSteps) :
           courseSteps[i] = "rerank" => i = Len(courseSteps) /\ i > 1
      /\ InList("rerank", courseSteps) <=>
           \/ CatalogHits("gap_query", Rat(1, 10))
           \/ CatalogHits("broader_query", Rat(1, 10))
           \/ AnyCourses

\* the catalog has a course that only the broader query finds: the call ran
\* three searches and then the re-rank, and never the unfiltered query
C22_Witness ==
  /\ pc = "course_done"
  /\ courseSteps = << "primary", "lower", "broader", "rerank" >>
  /\ Len(courseIn.env.catalog) >= 2
  /\ courseOut.recommendations # <<>>

\* the skills of the gaps handed to recommend_courses
GapSkills == {courseIn.gaps[i].skill : i \in 1..Len(courseIn.gaps)}

\* the top-ranked course's gaps_addressed names every gap skill
TopCoversAllGaps ==
  GapSkills \subseteq ToSet(GetOr(courseOut.ranked[1], "gaps_addressed", <<>>))

\* C23: recommend_courses selects exactly 1 course when there is one gap or
\* the top-ranked course's gaps_addressed covers every gap skill; otherwise
\* it selects 2 courses when at least 2 were retrieved
C23_OneCourseIffTopCoversGaps ==
  (pc = "course_done" /\ courseOut.ranked # <<>>) =>
    IF Len(courseIn.gaps) = 1 \/ TopCoversAllGaps
    THEN Len(courseOut.recommendations) = 1
    ELSE Len(courseOut.ranked) >= 2 => Len(courseOut.recommendations) = 2

\* the last record of the response that is for the in-batch index, when the
\* response has one
LastRecordFor(r, idx) ==
  ReturnedRecords(r)[CHOOSE k \in RecordsFor(r, idx) :
                       \A m \in RecordsFor(r, idx) : m <= k]

\* the value the own batch's response gives a field of the candidate at an
\* in-batch index: the field of the last record for the index, the default
\* when the response failed, has no such record or the record lacks the field
OwnField(r, idx, field, default) ==
  IF ResponseFails(r) \/ RecordsFor(r, idx) = {} THEN default
  ELSE GetOr(LastRecordFor(r, idx), field, default)

\* C24: after llm_rerank the list holds the retrieved candidates in the
\* retrieved order with their retrieved fields; the candidate at overall
\* position p (from 0) belongs to batch p div 5 and has exactly the LLM
\* fields that the response of that batch gives the index p mod 5. No
\* response of another batch and no record with an index outside the batch
\* reaches it, so the order in which batches are processed does not matter
C24_BatchResultsStayInTheirBatch ==
  pc = "pipe_reranked" =>
    /\ Len(pipeCands) = Len(pipeRetrieved)
    /\ \A p \in 1..Len(pipeCands) :
         /\ \A f \in DOMAIN pipeRetrieved[p] :
              f \in DOMAIN pipeCands[p] /\ pipeCands[p][f] = pipeRetrieved[p][f]
         /\ {"llm_score", "matched_skills", "missing_skills"}
              \subseteq DOMAIN pipeCands[p]
         /\ pipeCands[p].llm_score =
              IF ResponseFails(pipeIn.env.responses[((p - 1) \div batch_size) + 1])
              THEN Zero
              ELSE OwnScore(pipeIn.env.responses[((p - 1) \div batch_size) + 1],
                            (p - 1) % batch_size)
         /\ pipeCands[p].matched_skills =
              OwnField(pipeIn.env.responses[((p - 1) \div batch_size) + 1],
                       (p - 1) % batch_size, "matched_skills", <<>>)
         /\ pipeCands[p].missing_skills =
              OwnField(pipeIn.env.responses[((p - 1) \div batch_size) + 1],
                       (p - 1) % batch_size, "missing_skills", <<>>)

\* six candidates, so two batches; both responses hold records for the
\* indices 0..2: the sixth candidate has the score of the second response's
\* record 0, whose records 1 and 2 are outside the batch, and the second
\* candidate has the score of the first response's record 1
C24_Witness ==
  /\ pc = "pipe_reranked"
  /\ Len(pipeCands) = 6
  /\ \A b \in 1..2 :
       /\ ~ pipeIn.env.responses[b].raises
       /\ pipeIn.env.responses[b].is_list
       /\ Len(pipeIn.env.responses[b].array) = 3
  /\ pipeCands[6].llm_score = Rat(90, 100)
  /\ pipeCands[2].llm_score = Rat(40, 100)
  /\ pipeCands[4].llm_score = Zero

\* the number of batches of n candidates: ceil(n / batch_size)
BatchCount(n) == (n + batch_size - 1) \div batch_size

\* C25: in one match request the LLM is not called before retrieval has
\* returned candidates and not at all when retrieval raised or returned
\* nothing; once re-ranking is over it has been called once for each batch, in
\* batch order, ceil(n/5) times for n retrieved candidates, also when a call
\* failed; rule scores and final scores exist only after all these calls
C25_LlmOncePerBatchAfterRetrieval ==
  /\ pc \in {"pipe_start", "pipe_retrieved", "pipe_raised"} =>
       pipeLlmCalls = <<>> /\ pipeScored = <<>>
  /\ pc \in {"pipe_returned", "pipe_found"} /\ pipeRetrieved = <<>> =>
       pipeLlmCalls = <<>> /\ pipeScored = <<>>
  /\ pc = "pipe_retrieved" => pipeRetrieved # <<>>
  /\ pc \in {"pipe_reranked", "pipe_returned", "pipe_found"} =>
       pipeLlmCalls = [b \in 1..BatchCount(Len(pipeRetrieved)) |-> b]
  /\ pc = "pipe_reranked" =>
       /\ pipeScored = <<>>
       /\ \A p \in 1..Len(pipeCands) :
            {"rule_score", "final_score", "gaps"} \cap DOMAIN pipeCands[p] = {}
  /\ pipeScored # <<>> =>
       /\ pc \in {"pipe_returned", "pipe_found"}
       /\ Len(pipeScored) = Len(pipeRetrieved)
       /\ Len(pipeLlmCalls) = BatchCount(Len(pipeRetrieved))

\* six candidates were retrieved, the call of the first batch raised: the LLM
\* was called twice, once per batch, and the candidates have been scored
C25_Witness ==
  /\ pc = "pipe_found"
  /\ Len(pipeRetrieved) = 6
  /\ pipeIn.env.responses[1].raises
  /\ pipeLlmCalls = << 1, 2 >>
  /\ Len(pipeScored) = 6
  /\ \A p \in 1..Len(pipeCands) : "final_score" \in DOMAIN pipeCands[p]

\* the score of the required-skills axis in the list rule_based_scoring built
RequiredSkillsScore ==
  ruleResult.scores[CHOOSE i \in 1..Len(ruleResult.scores) :
                      ruleResult.scores[i].name = "required_skills"].score

\* C26: when every required skill is the same skill as some key of the
\* candidate's extracted_skills (equal after normalization or names of one
\* variation group) and analyze_gaps reports no gap, the required-skills
\* coverage of rule_based_scoring is 1.0: a variation spelling of a required
\* skill counts as matching it in the rule score
C26_RuleScoreCountsSynonyms ==
  pc = "match_analyzed" =>
    ((/\ req.required_skills # <<>>
      /\ \A i \in 1..Len(req.required_skills) :
           \E k \in ToSet(DictKeys(cand.extracted_skills)) :
             VariationEquivalent(k, req.required_skills[i])
      /\ gapList = <<>>)
     => RequiredSkillsScore = One)

\* the candidate's only skill is "java development" at expert level, Java is
\* the only required skill: no gap is reported, the coverage is 0
C26_FalseMismatch ==
  /\ pc = "match_analyzed"
  /\ DictKeys(cand.extracted_skills) = << <<"j", "a", "v", "a", " ", "d", "e", "v", "e", "l", "o", "p", "m", "e", "n", "t">> >>
  /\ req.required_skills = << <<"J", "a", "v", "a">> >>
  /\ req.min_years_per_skill = <<>>
  /\ gapList = <<>>
  /\ RequiredSkillsScore = Zero

\* a record whose relevance_score, when it has one, is a number
WellFormed(record) ==
  "relevance_score" \in DOMAIN record => record.relevance_score.type = "number"

\* the well-formed records of the response that are for the in-batch index
WellFormedFor(r, idx) ==
  {k \in RecordsFor(r, idx) : WellFormed(ReturnedRecords(r)[k])}

\* the last of them
LastWellFormedFor(r, idx) ==
  ReturnedRecords(r)[CHOOSE k \in WellFormedFor(r, idx) :
                       \A m \in WellFormedFor(r, idx) : m <= k]

\* C27: when the array a batch's call returned holds a well-formed record for
\* a candidate's in-batch index, the candidate has the llm_score
\* relevance_score/100 and the matched_skills of the last such record,
\* whatever the other records of the array are: a malformed sibling record
\* does not erase them
C27_MalformedSiblingKeepsScores ==
  pc = "pipe_reranked" =>
    \A p \in 1..Len(pipeCands) :
      LET r   == pipeIn.env.responses[((p - 1) \div batch_size) + 1]
          idx == (p - 1) % batch_size
      IN (~ r.raises /\ r.is_list /\ WellFormedFor(r, idx) # {}) =>
           /\ pipeCands[p].llm_score =
                Rat(GetOr(LastWellFormedFor(r, idx), "relevance_score",
                          [type |-> "number", value |-> 0]).value, 100)
           /\ pipeCands[p].matched_skills =
                GetOr(LastWellFormedFor(r, idx), "matched_skills", <<>>)

\* two candidates; the array's first record gives index 1 the score 90, its
\* second record has a string as score: the second candidate is left with
\* the default score
C27_ScoreErased ==
  /\ pc = "pipe_reranked"
  /\ Len(pipeCands) = 2
  /\ ~ pipeIn.env.responses[1].raises
  /\ pipeIn.env.responses[1].is_list
  /\ Len(pipeIn.env.responses[1].array) = 2
  /\ pipeIn.env.responses[1].array[1].candidate_index = 1
  /\ pipeIn.env.responses[1].array[1].relevance_score.value = 90
  /\ ~ WellFormed(pipeIn.env.responses[1].array[2])
  /\ pipeCands[2].llm_score = Zero

\* C28: a domain gap is attached to the candidate exactly when the domain
\* axis was included in rule_based_scoring with the domain score 0.0; none is
\* attached when the axis was treated as not specified or scored 1.0,
\* whatever whitespace the requirement's domain string carries
C28_DomainGapIffDomainAxisZero ==
  pc = "match_done" =>
    (domainGap # <<>>
       <=> \E i \in 1..Len(ruleResult.scores) :
             /\ ruleResult.scores[i].name = "domain"
             /\ ruleResult.scores[i].score = Zero)

\* the requirement's domain is two spaces: rule_based_scoring treats the
\* domain as not specified, and a domain gap for "  " is attached
C28_GapWithoutDomainAxis ==
  /\ pc = "match_done"
  /\ req.domain = <<" ", " ">>
  /\ ~ AxisApplied("domain")
  /\ domainGap = << [skill |-> <<" ", " ">>, gap_type |-> "domain",
                     severity |-> "medium"] >>

\* C29: a required skill that no key of extracted_skills matches, by
\* normalized name or variation, and that the implied set of some extracted
\* skill holds, gets no gap of any type from analyze_gaps, whatever
\* proficiency and years the candidate's entries record and whether or not
\* min_years_per_skill states a minimum for it
C29_ImpliedSkillIsNeverChecked ==
  pc = "match_analyzed" =>
    \A r \in ToSet(req.required_skills) :
      LET keys == ToSet(DictKeys(cand.extracted_skills))
      IN (/\ ~ \E k \in keys : skills_match(k, r)
          /\ \E k \in keys : InList(normalize(r), get_implied_skills(k)))
         => GapsOf(r) = {}

\* Spring Boot is the only entry, without proficiency and without recorded
\* years; Java is required with a minimum of 3 years: no gap
C29_Witness ==
  /\ pc = "match_analyzed"
  /\ cand.extracted_skills = << [k |-> <<"S", "p", "r", "i", "n", "g", " ", "B", "o", "o", "t">>, v |-> <<>>] >>
  /\ cand.years_of_experience = <<>>
  /\ req.required_skills = << <<"J", "a", "v", "a">> >>
  /\ req.min_years_per_skill = << [k |-> <<"J", "a", "v", "a">>, v |-> 3] >>
  /\ gapList = <<>>

\* s has no leading or trailing whitespace and no two consecutive spaces
IsTidy(s) ==
  /\ s # <<>> => ~ IsWhitespace(s[1]) /\ ~ IsWhitespace(s[Len(s)])
  /\ \A i \in 1..(Len(s) - 1) : ~ (s[i] = " " /\ s[i + 1] = " ")

\* C30: normalize_skill is idempotent, normalize_skill(normalize_skill(s)) =
\* normalize_skill(s) for every input s, and its output has no leading or
\* trailing whitespace and no two consecutive spaces, also when the input has
\* separators next to spaces
C30_NormalizeIdempotent ==
  pc \in {"norm_normalized", "norm_done"} =>
    /\ normalize_skill(normA) = normA
    /\ IsTidy(normA)

\* "-j" is normalized to " j", which is normalized to "j"
C30_LeadingSpaceLeft ==
  /\ pc = "norm_normalized"
  /\ skillA = <<"-", "j">>
  /\ normA = <<" ", "j">>
  /\ normalize_skill(normA) = <<"j">>

====
